---- MODULE Spec2Model ----
(***************************************************************************)
(* State-machine model of the DRS order-sync repository:                   *)
(*   - the relay-sync script (src/unnamed/part_002): worker JSON -> map -> *)
(*     filter -> upsert loop against the record store;                     *)
(*   - the scraper (src/drs-scrape.mjs): login loop -> orders page ->      *)
(*     extraction -> map -> filter -> batched create;                      *)
(*   - the relay (src/worker.js): one inbound request -> up to six         *)
(*     upstream attempts -> one response;                                  *)
(*   - the export scripts (src/unnamed/part_003, src/unnamed/part_004):    *)
(*     login -> reports -> export click -> download capture -> save;       *)
(*   - extractTable of the scraper as a function of the page's tables.     *)
(* Each behaviour runs one of the programs (prog).                         *)
(* Text is modelled as a sequence of one-character strings, so that        *)
(* stripping, trimming and escaping are computed and not assumed.          *)
(***************************************************************************)
EXTENDS Integers, Sequences, FiniteSets, TLC

VARIABLES
    prog,       \* which program this behaviour runs: "sync", "scrape", "relay",
                \* "part_003", "part_004" or "extractTable"
    pc,         \* position of the script's async main function
    exitCode,   \* process exit code once pc = "exited", -1 while running
    run,        \* number of the current run of the script (re-runs by the scheduler)
    start,      \* the run's target date (part_002 `start`, scraper `targetDate`)
    orders,     \* part_002: data.orders, the worker's JSON array
    mapped,     \* the kept records (both scripts call it `mapped`)
    store,      \* the record store's table: sequence of entries, id = position
    i,          \* loop position: index of the record / first record of the batch
    id,         \* part_002: result of findRecord for the current record (0 = null)
    created,    \* part_002 counter
    updated,    \* part_002 counter
    lookups,    \* history: indices of kept records for which a lookup query was sent (this run)
    writes,     \* history: store write calls issued in this run
    lastResp,   \* history: the store's answer to the latest lookup or write
    prev,       \* history: how the runs before this one ended
    loginUrl,   \* scraper: env.DRS_LOGIN_URL ("" when not set)
    IDX,        \* scraper: column index overrides (0 = none)
    candidates, \* scraper: the candidate login URLs
    c,          \* scraper: position in candidates of the URL being tried (1-based)
    page,       \* scraper: what the current page shows
    loggedIn,   \* scraper: the login loop's flag
    browser,    \* "none", "open" or "closed"
    rows,       \* scraper: rows returned by extractTable
    imported,   \* scraper counter
    outstanding,\* number of store writes sent and not yet answered
    visited,    \* history: URLs navigated to, in order
    snapshots,  \* history: tags snapshot() was called with
    filled,     \* history: controls filled or clicked on the current page
    files,      \* history: artifacts written under /tmp
    reported,   \* history: the final summary line has been printed
    missing,    \* names of the required environment variables that are not set
    req,        \* relay: the inbound request (method, debug)
    calls,      \* relay history: upstream calls made for this request, in order
    inflight,   \* relay: upstream calls sent and not yet answered
    up,         \* relay: the upstream response of the latest attempt
    diag,       \* relay: the diagnostics accumulator
    response,   \* relay: the response returned for the request
    dl,         \* export scripts: state of the download event
    grabs,      \* export scripts history: calls of tryGrabCSVFromPage
    dom,        \* extractTable: the tables of the page, in DOM order
    payload     \* extractTable: the value returned

vars == << prog, pc, exitCode, run, start, orders, mapped, store, i, id,
           created, updated, lookups, writes, lastResp, prev,
           loginUrl, IDX, candidates, c, page, loggedIn, browser, rows,
           imported, outstanding, visited, snapshots, filled, files, reported,
           missing, req, calls, inflight, up, diag, response, dl, grabs,
           dom, payload >>

syncVars == << orders, id, created, updated, lookups, prev >>
scrapeVars == << loginUrl, IDX, candidates, c, page, loggedIn, browser, rows,
                 imported, outstanding, visited, snapshots, filled, files, reported >>
dataVars == << run, start, mapped, store, i, writes, lastResp >>
relayVars == << req, calls, inflight, up, diag, response >>
exportVars == << dl, grabs >>
extractVars == << dom, payload >>

----------------------------------------------------------------------------
(* Bounds *)

MaxOrders == 2      \* objects in the worker's orders array
MaxRuns == 2        \* runs of a script against the same store

Dates == {"2025-01-15", "2025-01-16"}

----------------------------------------------------------------------------
(* Text helpers *)

Str(s) == [t |-> "str", s |-> s]
Obj(entries) == [t |-> "obj", o |-> entries]
KV(k, v) == [k |-> k, v |-> v]

\* String.prototype.toLowerCase on the key names the inputs use
toLowerCase(k) ==
    CASE k = "Customer" -> "customer"
      [] k = "ID" -> "id"
      [] k = "Order" -> "order"
      [] OTHER -> k

----------------------------------------------------------------------------
(* part_002: helpers *)

\* flatten(obj, prefix, out): nested objects are descended into, a leaf is
\* stored under the lower-cased name of its own key (not its path); a later
\* leaf of the same name overwrites an earlier one.
RECURSIVE flatten(_, _, _)
RECURSIVE flattenEntries(_, _)
flatten(obj, prefix, out) ==
    IF obj.t = "obj"
    THEN flattenEntries(obj.o, out)
    ELSE (toLowerCase(prefix) :> obj.s) @@ out

flattenEntries(entries, out) ==
    IF entries = <<>> THEN out
    ELSE flattenEntries(Tail(entries),
                        flatten(Head(entries).v, toLowerCase(Head(entries).k), out))

\* pick(obj, keys) of part_002: first key whose value is truthy
RECURSIVE pickFlat(_, _)
pickFlat(obj, keys) ==
    IF keys = <<>> THEN <<>>
    ELSE IF Head(keys) \in DOMAIN obj /\ obj[Head(keys)] # <<>>
         THEN obj[Head(keys)]
         ELSE pickFlat(obj, Tail(keys))

\* String(x || "").replace(/^#/, "")
stripHash(s) == IF s # <<>> /\ Head(s) = "#" THEN Tail(s) ELSE s

\* orders.map(o => {...}) body, lines 51-71
mapOrder(o, dt) ==
    LET flat == flatten(o, "", <<>>)
    IN  [ date     |-> dt,
          customer |-> pickFlat(flat, <<"customer", "customer_name", "name", "client", "contactname">>),
          address  |-> pickFlat(flat, <<"delivery_address", "address", "location", "site_address">>),
          phone    |-> pickFlat(flat, <<"customer_phone", "phone", "contact_phone", "mobile">>),
          size     |-> pickFlat(flat, <<"dumpster_size", "size", "container_size", "bin_size">>),
          order    |-> stripHash(pickFlat(flat, <<"order_id", "id", "order", "number", "tracking", "ticket_id", "invoice_id">>)),
          status   |-> pickFlat(flat, <<"status", "state", "order_status">>) ]

\* .filter(r => (r[F.customer] || r[F.address] || r[F.order]))
keepFlat(r) == r.customer # <<>> \/ r.address # <<>> \/ r.order # <<>>

RECURSIVE SelectKept(_, _)
SelectKept(recs, dt) ==
    IF recs = <<>> THEN <<>>
    ELSE LET r == mapOrder(Head(recs), dt)
         IN  (IF keepFlat(r) THEN <<r>> ELSE <<>>) \o SelectKept(Tail(recs), dt)

\* String(rec[F.order] || "").replace(/'/g, "\\'")
RECURSIVE escapeQuotes(_)
escapeQuotes(s) ==
    IF s = <<>> THEN <<>>
    ELSE (IF Head(s) = "'" THEN <<"\\", "'">> ELSE <<Head(s)>>) \o escapeQuotes(Tail(s))

----------------------------------------------------------------------------
(* The record store as findRecord / airtableCreate / airtableUpdate use it *)

\* The store reads the text between the quotes of '<orderNo>' in the formula:
\* a backslash takes the next character literally, a bare quote ends the
\* literal early and leaves an invalid formula.
RECURSIVE parseLiteral(_)
parseLiteral(k) ==
    IF k = <<>> THEN [ok |-> TRUE, v |-> <<>>]
    ELSE IF Head(k) = "\\"
         THEN IF Len(k) < 2 THEN [ok |-> FALSE, v |-> <<>>]
              ELSE LET r == parseLiteral(Tail(Tail(k)))
                   IN  [ok |-> r.ok, v |-> <<k[2]>> \o r.v]
         ELSE IF Head(k) = "'" THEN [ok |-> FALSE, v |-> <<>>]
              ELSE LET r == parseLiteral(Tail(k))
                   IN  [ok |-> r.ok, v |-> <<Head(k)>> \o r.v]

\* ids of the entries AND({date}='dateVal', {order}='orderNo') selects
matchingIds(st, dateVal, orderNo) ==
    LET lit == parseLiteral(orderNo)
    IN  IF lit.ok
        THEN {n \in 1..Len(st) : st[n].date = dateVal /\ st[n].order = lit.v}
        ELSE {}

Min(S) == CHOOSE x \in S : \A y \in S : x <= y

\* Body of the lookup response: "records" (maxRecords=1, the first match) or,
\* for an error answer or an invalid formula, a JSON body without records.
\* resp is the store's answer: "ok", "error" (JSON error body).
responseRecords(st, dateVal, orderNo, resp) ==
    IF resp = "ok" /\ parseLiteral(orderNo).ok /\ matchingIds(st, dateVal, orderNo) # {}
    THEN <<Min(matchingIds(st, dateVal, orderNo))>>
    ELSE <<>>

\* findRecord's return value once the response is read:
\* (j.records && j.records[0] && j.records[0].id) || null
findRecordResult(st, dateVal, orderNo, resp) ==
    LET recs == responseRecords(st, dateVal, orderNo, resp)
    IN  IF recs # <<>> THEN recs[1] ELSE 0

\* if (!orderNo) return null;  -- no request is sent
sendsLookupAlways(orderNo) == TRUE
sendsLookup(orderNo) == orderNo # <<>>

----------------------------------------------------------------------------
(* part_002: inputs *)

c7 == <<"7">>
cHash7 == <<"#", "7">>
cQ == <<"7", "'">>
cA == <<"A">>

OrderCatalogue ==
    { <<KV("order_id", Str(c7)), KV("customer_name", Str(cA))>>,
      <<KV("ID", Str(cHash7))>>,
      <<KV("Customer", Str(cA))>>,
      <<KV("status", Str(<<"D">>))>>,
      <<KV("name", Str(cA)), KV("Order", Obj(<<KV("id", Str(cQ))>>))>> }

OrderLists == UNION { [1..n -> {Obj(e) : e \in OrderCatalogue}] : n \in 0..MaxOrders }

NoPage == [kind |-> "none"]

\* Values of the scraper's variables in a behaviour of another script
ScrapeIdle ==
    /\ loginUrl = ""
    /\ IDX = [customer |-> 0, address |-> 0, phone |-> 0, size |-> 0, order |-> 0, status |-> 0]
    /\ candidates = <<>>
    /\ c = 0
    /\ page = NoPage
    /\ loggedIn = FALSE
    /\ browser = "none"
    /\ rows = <<>>
    /\ imported = 0
    /\ outstanding = 0
    /\ visited = <<>>
    /\ snapshots = <<>>
    /\ filled = {}
    /\ files = {}
    /\ reported = FALSE

NoUp == [status |-> 0, json |-> FALSE, value |-> [t |-> "null"]]
NoDiag == [status |-> 0, url |-> "", mode |-> "", keys |-> <<>>]
NoResponse == [status |-> 0, body |-> [kind |-> "none", obj |-> <<>>]]

\* Values of the relay's variables in a behaviour of another program
RelayIdle ==
    /\ req = [method |-> "", debug |-> FALSE]
    /\ calls = <<>>
    /\ inflight = 0
    /\ up = NoUp
    /\ diag = NoDiag
    /\ response = NoResponse

\* Values of the export scripts' variables in a behaviour of another program
ExportIdle ==
    /\ dl = "none"
    /\ grabs = 0

NoPayload == [rows |-> <<>>, headers |-> <<>>]

\* Values of extractTable's variables in a behaviour of another program
ExtractIdle ==
    /\ dom = <<>>
    /\ payload = NoPayload

NoPrev == [done |-> FALSE, clean |-> TRUE, date |-> "", size |-> 0]

InitSync ==
    /\ prog = "sync"
    /\ pc = "start"
    /\ exitCode = -1
    /\ run = 1
    /\ start \in Dates
    /\ orders \in OrderLists
    /\ mapped = <<>>
    /\ store = <<>>
    /\ i = 0
    /\ id = 0
    /\ created = 0
    /\ updated = 0
    /\ lookups = <<>>
    /\ writes = <<>>
    /\ lastResp = "none"
    /\ prev = NoPrev
    /\ ScrapeIdle
    /\ missing = {}
    /\ RelayIdle
    /\ ExportIdle
    /\ ExtractIdle

----------------------------------------------------------------------------
(* part_002: the main function *)

Exit(code) ==
    /\ pc' = "exited"
    /\ exitCode' = code

\* lines 39-46: the worker answers; a failed or malformed answer exits with 1
SyncWorkerFailed ==
    /\ prog = "sync" /\ pc = "start"
    /\ Exit(1)
    /\ UNCHANGED << prog, run, start, orders, mapped, store, i, id, created,
                    updated, lookups, writes, lastResp, prev >>
    /\ UNCHANGED scrapeVars
    /\ UNCHANGED << missing, relayVars, exportVars, extractVars >>

\* lines 48-76: map, filter, reset the counters, enter the loop
SyncMap ==
    /\ prog = "sync" /\ pc = "start"
    /\ mapped' = SelectKept(orders, start)
    /\ created' = 0
    /\ updated' = 0
    /\ i' = 1
    /\ id' = 0
    /\ pc' = IF mapped' = <<>> THEN "summary" ELSE "find"
    /\ UNCHANGED << prog, exitCode, run, start, orders, store, lookups, writes,
                    lastResp, prev >>
    /\ UNCHANGED scrapeVars
    /\ UNCHANGED << missing, relayVars, exportVars, extractVars >>

\* lines 78-80 with findRecord: the key is escaped; an empty key returns null
\* without a request; otherwise the store's answer decides id, or the request
\* throws (network error, non-JSON body) and the run ends with exit code 1.
SyncFind ==
    /\ prog = "sync" /\ pc = "find"
    /\ LET rec == mapped[i]
           key == escapeQuotes(rec.order)
           dt  == rec.date
       IN  IF ~sendsLookup(key)
           THEN /\ id' = 0
                /\ pc' = "write"
                /\ UNCHANGED << exitCode, lookups, lastResp >>
           ELSE /\ lookups' = Append(lookups, i)
                /\ \E resp \in {"ok", "error", "throw"} :
                      /\ lastResp' = resp
                      /\ IF resp = "throw"
                         THEN /\ Exit(1)
                              /\ id' = id
                         ELSE /\ id' = findRecordResult(store, dt, key, resp)
                              /\ pc' = "write"
                              /\ exitCode' = exitCode
    /\ UNCHANGED << prog, run, start, orders, mapped, store, i, created, updated,
                    writes, prev >>
    /\ UNCHANGED scrapeVars
    /\ UNCHANGED << missing, relayVars, exportVars, extractVars >>

\* Faulty variant of SyncWrite: the counter is raised before the write is answered
SyncWriteCountsEarly ==
    /\ prog = "sync" /\ pc = "write"
    /\ LET rec == mapped[i]
           op  == IF id # 0 THEN "update" ELSE "create"
       IN  /\ writes' = Append(writes, [op |-> op, rec |-> i, id |-> id])
           /\ updated' = IF id # 0 THEN updated + 1 ELSE updated
           /\ created' = IF id # 0 THEN created ELSE created + 1
           /\ \E accepted \in BOOLEAN :
                 /\ lastResp' = IF accepted THEN "ok" ELSE "rejected"
                 /\ IF accepted
                    THEN /\ store' = IF id # 0 THEN [store EXCEPT ![id] = rec]
                                               ELSE Append(store, rec)
                         /\ i' = i + 1
                         /\ pc' = IF i + 1 > Len(mapped) THEN "summary" ELSE "find"
                         /\ exitCode' = exitCode
                    ELSE /\ Exit(1)
                         /\ UNCHANGED << store, i >>
    /\ UNCHANGED << prog, run, start, orders, mapped, id, lookups, prev >>
    /\ UNCHANGED scrapeVars
    /\ UNCHANGED << missing, relayVars, exportVars, extractVars >>

\* lines 81-87: update the found entry or create a new one; a rejected write
\* throws and the run ends with exit code 1
SyncWrite ==
    /\ prog = "sync" /\ pc = "write"
    /\ LET rec == mapped[i]
           op  == IF id # 0 THEN "update" ELSE "create"
       IN  /\ writes' = Append(writes, [op |-> op, rec |-> i, id |-> id])
           /\ \E accepted \in BOOLEAN :
                 /\ lastResp' = IF accepted THEN "ok" ELSE "rejected"
                 /\ IF accepted
                    THEN /\ store' = IF id # 0 THEN [store EXCEPT ![id] = rec]
                                               ELSE Append(store, rec)
                         /\ updated' = IF id # 0 THEN updated + 1 ELSE updated
                         /\ created' = IF id # 0 THEN created ELSE created + 1
                         /\ i' = i + 1
                         /\ pc' = IF i + 1 > Len(mapped) THEN "summary" ELSE "find"
                         /\ exitCode' = exitCode
                    ELSE /\ Exit(1)
                         /\ UNCHANGED << store, updated, created, i >>
    /\ UNCHANGED << prog, run, start, orders, mapped, id, lookups, prev >>
    /\ UNCHANGED scrapeVars
    /\ UNCHANGED << missing, relayVars, exportVars, extractVars >>

\* lines 90-94: the summary is printed and the process ends normally
SyncSummary ==
    /\ prog = "sync" /\ pc = "summary"
    /\ Exit(0)
    /\ UNCHANGED << prog, run, start, orders, mapped, store, i, id, created,
                    updated, lookups, writes, lastResp, prev >>
    /\ UNCHANGED scrapeVars
    /\ UNCHANGED << missing, relayVars, exportVars, extractVars >>

\* The scheduler starts the script again, with the same upstream data,
\* for some date.
SyncRerun ==
    /\ prog = "sync" /\ pc = "exited"
    /\ run < MaxRuns
    /\ run' = run + 1
    /\ prev' = [done |-> exitCode = 0, clean |-> prev.clean /\ exitCode = 0,
                 date |-> start, size |-> Len(store)]
    /\ start' \in Dates
    /\ pc' = "start"
    /\ exitCode' = -1
    /\ mapped' = <<>>
    /\ i' = 0
    /\ id' = 0
    /\ created' = 0
    /\ updated' = 0
    /\ lookups' = <<>>
    /\ writes' = <<>>
    /\ lastResp' = "none"
    /\ UNCHANGED << prog, orders, store >>
    /\ UNCHANGED scrapeVars
    /\ UNCHANGED << missing, relayVars, exportVars, extractVars >>

NextSync ==
    \/ SyncWorkerFailed
    \/ SyncMap
    \/ SyncFind
    \/ SyncWrite
    \/ SyncSummary
    \/ SyncRerun

SpecSync == InitSync /\ [][NextSync]_vars

----------------------------------------------------------------------------
(* drs-scrape.mjs: helpers *)

MaxVarRows == 2     \* leading extracted rows drawn freely from RowCatalogue
MaxFillRows == 11   \* further extracted rows, all equal to FillRow
BatchSize == 10

\* String.prototype.trim
RECURSIVE trimStart(_)
trimStart(s) == IF s # <<>> /\ Head(s) = " " THEN trimStart(Tail(s)) ELSE s
RECURSIVE trimEnd(_)
trimEnd(s) == IF s # <<>> /\ s[Len(s)] = " " THEN trimEnd(SubSeq(s, 1, Len(s) - 1)) ELSE s
trim(s) == trimEnd(trimStart(s))

\* pick(obj, keys): first key whose value is non-blank
\* Faulty variant of pick: the last synonym with a value wins
RECURSIVE pickLast(_, _)
pickLast(obj, keys) ==
    IF keys = <<>> THEN <<>>
    ELSE IF pickLast(obj, Tail(keys)) # <<>> THEN pickLast(obj, Tail(keys))
    ELSE IF Head(keys) \in DOMAIN obj /\ trim(obj[Head(keys)]) # <<>> THEN obj[Head(keys)]
    ELSE <<>>

RECURSIVE pick(_, _)
pick(obj, keys) ==
    IF keys = <<>> THEN <<>>
    ELSE IF Head(keys) \in DOMAIN obj /\ trim(obj[Head(keys)]) # <<>>
         THEN obj[Head(keys)]
         ELSE pick(obj, Tail(keys))

colKey(n) == CASE n = 1 -> "col1" [] n = 2 -> "col2" [] n = 3 -> "col3" [] OTHER -> "colN"

\* pickIndex(row, idx)
pickIndex(row, idx) ==
    IF idx = 0 THEN <<>>
    ELSE IF colKey(idx) \in DOMAIN row /\ trim(row[colKey(idx)]) # <<>>
         THEN row[colKey(idx)]
         ELSE <<>>

\* a || b on strings
OrElse(a, b) == IF a # <<>> THEN a ELSE b

\* rows.map(r => ({...})), lines 98-106
mapRow(r, dt, idx) ==
    [ date     |-> dt,
      customer |-> OrElse(pick(r, <<"Customer", "Name", "Client">>), pickIndex(r, idx.customer)),
      address  |-> OrElse(pick(r, <<"Address", "Delivery Address">>), pickIndex(r, idx.address)),
      phone    |-> OrElse(pick(r, <<"Phone", "Phone Number">>), pickIndex(r, idx.phone)),
      size     |-> OrElse(pick(r, <<"Dumpster Size", "Size">>), pickIndex(r, idx.size)),
      order    |-> OrElse(pick(r, <<"Order", "Order ID", "ID">>), pickIndex(r, idx.order)),
      status   |-> OrElse(pick(r, <<"Status">>), pickIndex(r, idx.status)) ]

\* .filter(obj => keys.some(k => (obj[k] || "").toString().trim().length > 0))
\* with keys = customer, address, phone, size, order, status
keepRowAll(obj) == TRUE
keepRow(obj) ==
    \E v \in {obj.customer, obj.address, obj.phone, obj.size, obj.order, obj.status} :
        Len(trim(v)) > 0

RECURSIVE SelectRows(_, _, _)
SelectRows(rs, dt, idx) ==
    IF rs = <<>> THEN <<>>
    ELSE LET obj == mapRow(Head(rs), dt, idx)
         IN  (IF keepRow(obj) THEN <<obj>> ELSE <<>>) \o SelectRows(Tail(rs), dt, idx)

\* mapped.slice(i, i + 10), i counted from 0
chunkEnd(n, from) == IF from + BatchSize < n THEN from + BatchSize ELSE n
chunk(recs, from) == SubSeq(recs, from + 1, chunkEnd(Len(recs), from))

\* the loop's step: i += 10
nextBatchOverlap(from) == from + BatchSize - 1
nextBatch(from) == from + BatchSize

\* candidates = [DRS_LOGIN_URL, base/login/, ...].filter(Boolean), lines 53-60
RECURSIVE filterBoolean(_)
filterBoolean(urls) ==
    IF urls = <<>> THEN <<>>
    ELSE (IF Head(urls) # "" THEN <<Head(urls)>> ELSE <<>>) \o filterBoolean(Tail(urls))

candidateListBaseFirst(login) ==
    filterBoolean(<< "B/", login, "B/login/", "B/users/login/", "B/account/login/",
                     "B/admin/login/" >>)
candidateList(login) ==
    filterBoolean(<< login, "B/login/", "B/users/login/", "B/account/login/",
                     "B/admin/login/", "B/" >>)

\* What a page shows to the selectors the scraper uses
LoginPages == [kind : {"login"}, user : BOOLEAN, pwd : BOOLEAN, submit : BOOLEAN, logout : BOOLEAN]
OrdersPages == [kind : {"orders"}, startInput : BOOLEAN, endInput : BOOLEAN, filterBtn : BOOLEAN]

\* hasPasswordField(page)
hasPasswordField(pg) == pg.pwd

\* tryLogin, lines 172-185: both fields must be located before anything is filled
fieldsFound(pg) == pg.user /\ pg.pwd

\* Faulty variant of loginSucceeded: a Logout element is not looked for
loginSucceededNoLogout(pg) == ~hasPasswordField(pg)

\* tryLogin, lines 198-200, on the page as it is after the submission settled
loginSucceeded(pg) == ~hasPasswordField(pg) \/ pg.logout

\* the loop's second test, line 66
noLoginNeeded(pg) == ~hasPasswordField(pg)

----------------------------------------------------------------------------
(* drs-scrape.mjs: inputs *)

RowCatalogue ==
    { ("Customer" :> cA) @@ ("Order" :> cHash7),
      ("Status" :> <<"D">>) @@ ("Customer" :> <<>>),
      ("Name" :> <<>>),
      ("Phone" :> <<"5">>),
      ("col1" :> cA) @@ ("col2" :> c7),
      ("col1" :> cQ) @@ ("Customer" :> <<>>) @@ ("Name" :> c7) @@ ("Client" :> cA) }
FillRow == ("Customer" :> cA) @@ ("Order" :> c7) @@ ("Status" :> <<"D">>)

\* Extraction results: up to MaxVarRows catalogue rows, or at most one
\* catalogue row followed by up to MaxFillRows rows equal to FillRow
VarLists == UNION { [1..n -> RowCatalogue] : n \in 0..MaxVarRows }
RowLists ==
    VarLists \cup
    { v \o [k \in 1..f |-> FillRow] :
        v \in {w \in VarLists : Len(w) <= 1}, f \in 1..MaxFillRows }

\* lines 19-23: the variables must() insists on
ScrapeRequired == {"DRS_BASE", "DRS_USERNAME", "DRS_PASSWORD", "DRS_ORDERS_URL",
                   "AIRTABLE_API_KEY", "AIRTABLE_BASE_ID", "AIRTABLE_TABLE"}

\* must, lines 151-159: throws for an unset variable other than the two optional ones
mustThrows(miss) == \E k \in miss : k \notin {"DRS_LOGIN_URL", "DATE"}

NoIDX == [customer |-> 0, address |-> 0, phone |-> 0, size |-> 0, order |-> 0, status |-> 0]

\* Values of the relay-sync script's variables in a behaviour of another script
SyncIdle ==
    /\ orders = <<>>
    /\ id = 0
    /\ created = 0
    /\ updated = 0
    /\ lookups = <<>>
    /\ prev = NoPrev

InitScrape ==
    /\ prog = "scrape"
    /\ pc = "start"
    /\ exitCode = -1
    /\ run = 1
    /\ start = "2025-01-15"
    /\ mapped = <<>>
    /\ store = <<>>
    /\ i = 0
    /\ writes = <<>>
    /\ lastResp = "none"
    /\ SyncIdle
    /\ loginUrl \in {"", "L", "B/login/"}
    /\ IDX \in {NoIDX, [NoIDX EXCEPT !.customer = 1]}
    /\ candidates = <<>>
    /\ c = 0
    /\ page = NoPage
    /\ loggedIn = FALSE
    /\ browser = "none"
    /\ rows = <<>>
    /\ imported = 0
    /\ outstanding = 0
    /\ visited = <<>>
    /\ snapshots = <<>>
    /\ filled = {}
    /\ files = {}
    /\ reported = FALSE
    /\ \E extra \in {{}} \cup {{k} : k \in ScrapeRequired} :
          missing = (IF loginUrl = "" THEN {"DRS_LOGIN_URL"} ELSE {}) \cup extra
    /\ RelayIdle
    /\ ExportIdle
    /\ ExtractIdle

----------------------------------------------------------------------------
(* drs-scrape.mjs: the main function *)

\* An exception reaches the top-level catch, lines 145-148: process.exit(1)
Throw == Exit(1)

\* lines 19-23 and 151-159: a required variable is missing, must() throws
\* while the module is loaded, before main starts
ScrapeMissingEnv ==
    /\ prog = "scrape" /\ pc = "start"
    /\ mustThrows(missing)
    /\ Throw
    /\ UNCHANGED << prog, run, start, mapped, store, i, writes, lastResp >>
    /\ UNCHANGED << syncVars, missing, relayVars, exportVars, extractVars >>
    /\ UNCHANGED scrapeVars

\* lines 48-62: the browser is launched, the candidate list is built
ScrapeLaunch ==
    /\ prog = "scrape" /\ pc = "start"
    /\ ~mustThrows(missing)
    /\ browser' = "open"
    /\ candidates' = candidateList(loginUrl)
    /\ c' = 1
    /\ loggedIn' = FALSE
    /\ pc' = "goto"
    /\ UNCHANGED << prog, exitCode, run, start, mapped, store, i, writes, lastResp >>
    /\ UNCHANGED << syncVars, missing, relayVars, exportVars, extractVars >>
    /\ UNCHANGED << loginUrl, IDX, page, rows, imported, outstanding, visited,
                    snapshots, filled, files, reported >>

\* line 64: page.goto(url) of the next candidate; the navigation may throw
ScrapeGoto ==
    /\ prog = "scrape" /\ pc = "goto" /\ c <= Len(candidates)
    /\ visited' = Append(visited, candidates[c])
    /\ filled' = {}
    /\ \E pg \in LoginPages \cup {NoPage} :
          IF pg = NoPage
          THEN Throw /\ page' = page
          ELSE page' = pg /\ pc' = "tryLogin" /\ exitCode' = exitCode
    /\ UNCHANGED << prog, run, start, mapped, store, i, writes, lastResp >>
    /\ UNCHANGED << syncVars, missing, relayVars, exportVars, extractVars >>
    /\ UNCHANGED << loginUrl, IDX, candidates, c, loggedIn, browser, rows, imported,
                    outstanding, snapshots, files, reported >>

\* lines 65-66 with tryLogin (169-201): fill and submit when both fields are
\* found, then decide; otherwise test for a password field; then break or
\* go on with the next candidate.  Clicking the submit control may throw.
ScrapeTryLogin ==
    /\ prog = "scrape" /\ pc = "tryLogin"
    /\ IF fieldsFound(page)
       THEN \E after \in LoginPages \cup {NoPage} :
               IF after = NoPage
               THEN /\ page.submit
                    /\ filled' = {"user", "pwd", "submit"}
                    /\ Throw
                    /\ UNCHANGED << page, loggedIn, c >>
               ELSE /\ filled' = {"user", "pwd", IF page.submit THEN "submit" ELSE "Enter"}
                    /\ page' = after
                    /\ loggedIn' = (loginSucceeded(after) \/ noLoginNeeded(after))
                    /\ c' = IF loggedIn' THEN c ELSE c + 1
                    /\ pc' = IF loggedIn' THEN "orders"
                             ELSE IF c + 1 > Len(candidates) THEN "loginFailed" ELSE "goto"
                    /\ exitCode' = exitCode
       ELSE /\ loggedIn' = noLoginNeeded(page)
            /\ c' = IF loggedIn' THEN c ELSE c + 1
            /\ pc' = IF loggedIn' THEN "orders"
                     ELSE IF c + 1 > Len(candidates) THEN "loginFailed" ELSE "goto"
            /\ UNCHANGED << page, filled, exitCode >>
    /\ UNCHANGED << prog, run, start, mapped, store, i, writes, lastResp >>
    /\ UNCHANGED << syncVars, missing, relayVars, exportVars, extractVars >>
    /\ UNCHANGED << loginUrl, IDX, candidates, browser, rows, imported, outstanding,
                    visited, snapshots, files, reported >>

\* Faulty variant of ScrapeLoginFailed: the snapshot is taken, nothing is thrown
ScrapeLoginFailedContinues ==
    /\ prog = "scrape" /\ pc = "loginFailed"
    /\ snapshots' = Append(snapshots, "login-failed")
    /\ pc' = "orders"
    /\ UNCHANGED << prog, exitCode, run, start, mapped, store, i, writes, lastResp >>
    /\ UNCHANGED << syncVars, missing, relayVars, exportVars, extractVars >>
    /\ UNCHANGED << loginUrl, IDX, candidates, c, page, loggedIn, browser, rows,
                    imported, outstanding, visited, filled, files, reported >>

\* lines 68-71: no candidate authenticated: snapshot, then throw
ScrapeLoginFailed ==
    /\ prog = "scrape" /\ pc = "loginFailed"
    /\ snapshots' = Append(snapshots, "login-failed")
    /\ Throw
    /\ UNCHANGED << prog, run, start, mapped, store, i, writes, lastResp >>
    /\ UNCHANGED << syncVars, missing, relayVars, exportVars, extractVars >>
    /\ UNCHANGED << loginUrl, IDX, candidates, c, page, loggedIn, browser, rows,
                    imported, outstanding, visited, filled, files, reported >>

\* line 74: page.goto(DRS_ORDERS_URL); the navigation may throw
ScrapeOrders ==
    /\ prog = "scrape" /\ pc = "orders"
    /\ visited' = Append(visited, "ORDERS")
    /\ filled' = {}
    /\ \E pg \in OrdersPages \cup {NoPage} :
          IF pg = NoPage
          THEN Throw /\ page' = page
          ELSE page' = pg /\ pc' = "filter" /\ exitCode' = exitCode
    /\ UNCHANGED << prog, run, start, mapped, store, i, writes, lastResp >>
    /\ UNCHANGED << syncVars, missing, relayVars, exportVars, extractVars >>
    /\ UNCHANGED << loginUrl, IDX, candidates, c, loggedIn, browser, rows, imported,
                    outstanding, snapshots, files, reported >>

\* Faulty variant of ScrapeFilter: the step fails when a control is missing
ScrapeFilterStrict ==
    /\ prog = "scrape" /\ pc = "filter"
    /\ filled' = {x \in {"start", "end", "filterBtn"} :
                    \/ x = "start" /\ page.startInput
                    \/ x = "end" /\ page.endInput
                    \/ x = "filterBtn" /\ page.filterBtn}
    /\ IF page.startInput /\ page.endInput /\ page.filterBtn
       THEN pc' = "extract" /\ exitCode' = exitCode
       ELSE Throw
    /\ UNCHANGED << prog, run, start, mapped, store, i, writes, lastResp >>
    /\ UNCHANGED << syncVars, missing, relayVars, exportVars, extractVars >>
    /\ UNCHANGED << loginUrl, IDX, candidates, c, page, loggedIn, browser, rows,
                    imported, outstanding, visited, snapshots, files, reported >>

\* lines 77-84: fill the date inputs that exist, click the filter button if
\* there is one; the click may throw
ScrapeFilter ==
    /\ prog = "scrape" /\ pc = "filter"
    /\ filled' = {x \in {"start", "end", "filterBtn"} :
                    \/ x = "start" /\ page.startInput
                    \/ x = "end" /\ page.endInput
                    \/ x = "filterBtn" /\ page.filterBtn}
    /\ \/ pc' = "extract" /\ exitCode' = exitCode
       \/ page.filterBtn /\ Throw
    /\ UNCHANGED << prog, run, start, mapped, store, i, writes, lastResp >>
    /\ UNCHANGED << syncVars, missing, relayVars, exportVars, extractVars >>
    /\ UNCHANGED << loginUrl, IDX, candidates, c, page, loggedIn, browser, rows,
                    imported, outstanding, visited, snapshots, files, reported >>

\* lines 87-95: extractTable; snapshot when there are no rows; orders.json
ScrapeExtract ==
    /\ prog = "scrape" /\ pc = "extract"
    /\ rows' \in RowLists
    /\ snapshots' = IF rows' = <<>> THEN Append(snapshots, "no-rows") ELSE snapshots
    /\ files' = files \cup {"orders.json"}
    /\ pc' = "map"
    /\ UNCHANGED << prog, exitCode, run, start, mapped, store, i, writes, lastResp >>
    /\ UNCHANGED << syncVars, missing, relayVars, exportVars, extractVars >>
    /\ UNCHANGED << loginUrl, IDX, candidates, c, page, loggedIn, browser, imported,
                    outstanding, visited, filled, reported >>

\* lines 98-119: map, filter, enter the batch loop when something is kept
ScrapeMap ==
    /\ prog = "scrape" /\ pc = "map"
    /\ mapped' = SelectRows(rows, start, IDX)
    /\ imported' = 0
    /\ i' = 0
    /\ pc' = IF mapped' # <<>> THEN "batch" ELSE "summary"
    /\ UNCHANGED << prog, exitCode, run, start, store, writes, lastResp >>
    /\ UNCHANGED << syncVars, missing, relayVars, exportVars, extractVars >>
    /\ UNCHANGED << loginUrl, IDX, candidates, c, page, loggedIn, browser, rows,
                    outstanding, visited, snapshots, filled, files, reported >>

\* lines 119-122: the loop test, then table.create(chunk) is sent
ScrapeBatchSend ==
    /\ prog = "scrape" /\ pc = "batch"
    /\ IF i < Len(mapped)
       THEN /\ writes' = Append(writes, [op |-> "create", from |-> i, recs |-> chunk(mapped, i)])
            /\ outstanding' = outstanding + 1
            /\ pc' = "await"
       ELSE /\ pc' = "summary"
            /\ UNCHANGED << writes, outstanding >>
    /\ UNCHANGED << prog, exitCode, run, start, mapped, store, i, lastResp >>
    /\ UNCHANGED << syncVars, missing, relayVars, exportVars, extractVars >>
    /\ UNCHANGED << loginUrl, IDX, candidates, c, page, loggedIn, browser, rows,
                    imported, visited, snapshots, filled, files, reported >>

\* Faulty variant of ScrapeBatchDone: the catch block writes the artifact and does not
\* throw again, so the run goes on to the summary
ScrapeBatchDoneSwallows ==
    /\ prog = "scrape" /\ pc = "await"
    /\ outstanding' = outstanding - 1
    /\ \E accepted \in BOOLEAN :
          /\ lastResp' = IF accepted THEN "ok" ELSE "rejected"
          /\ IF accepted
             THEN /\ store' = store \o writes[Len(writes)].recs
                  /\ imported' = imported + Len(writes[Len(writes)].recs)
                  /\ i' = nextBatch(i)
                  /\ pc' = "batch"
                  /\ UNCHANGED << files >>
             ELSE /\ files' = files \cup {"airtable-error.txt"}
                  /\ pc' = "summary"
                  /\ UNCHANGED << store, imported, i >>
    /\ UNCHANGED << prog, exitCode, run, start, mapped, writes >>
    /\ UNCHANGED << syncVars, missing, relayVars, exportVars, extractVars >>
    /\ UNCHANGED << loginUrl, IDX, candidates, c, page, loggedIn, browser, rows,
                    visited, snapshots, filled, reported >>

\* lines 122-130: the store answers: the batch is created and counted, or it
\* is rejected: the error is written to airtable-error.txt and thrown again
ScrapeBatchDone ==
    /\ prog = "scrape" /\ pc = "await"
    /\ outstanding' = outstanding - 1
    /\ \E accepted \in BOOLEAN :
          /\ lastResp' = IF accepted THEN "ok" ELSE "rejected"
          /\ IF accepted
             THEN /\ store' = store \o writes[Len(writes)].recs
                  /\ imported' = imported + Len(writes[Len(writes)].recs)
                  /\ i' = nextBatch(i)
                  /\ pc' = "batch"
                  /\ UNCHANGED << files, exitCode >>
             ELSE /\ files' = files \cup {"airtable-error.txt"}
                  /\ Throw
                  /\ UNCHANGED << store, imported, i >>
    /\ UNCHANGED << prog, run, start, mapped, writes >>
    /\ UNCHANGED << syncVars, missing, relayVars, exportVars, extractVars >>
    /\ UNCHANGED << loginUrl, IDX, candidates, c, page, loggedIn, browser, rows,
                    visited, snapshots, filled, reported >>

\* lines 133-142: the summary line
ScrapeSummary ==
    /\ prog = "scrape" /\ pc = "summary"
    /\ reported' = TRUE
    /\ pc' = "close"
    /\ UNCHANGED << prog, exitCode, run, start, mapped, store, i, writes, lastResp >>
    /\ UNCHANGED << syncVars, missing, relayVars, exportVars, extractVars >>
    /\ UNCHANGED << loginUrl, IDX, candidates, c, page, loggedIn, browser, rows,
                    imported, outstanding, visited, snapshots, filled, files >>

\* line 144: browser.close(), then main returns and the process ends with 0
ScrapeClose ==
    /\ prog = "scrape" /\ pc = "close"
    /\ browser' = "closed"
    /\ Exit(0)
    /\ UNCHANGED << prog, run, start, mapped, store, i, writes, lastResp >>
    /\ UNCHANGED << syncVars, missing, relayVars, exportVars, extractVars >>
    /\ UNCHANGED << loginUrl, IDX, candidates, c, page, loggedIn, rows, imported,
                    outstanding, visited, snapshots, filled, files, reported >>

NextScrape ==
    \/ ScrapeMissingEnv
    \/ ScrapeLaunch
    \/ ScrapeGoto
    \/ ScrapeTryLogin
    \/ ScrapeLoginFailed
    \/ ScrapeOrders
    \/ ScrapeFilter
    \/ ScrapeExtract
    \/ ScrapeMap
    \/ ScrapeBatchSend
    \/ ScrapeBatchDone
    \/ ScrapeSummary
    \/ ScrapeClose

SpecScrape == InitScrape /\ [][NextScrape]_vars

----------------------------------------------------------------------------
(* worker.js: helpers and inputs *)

Arr(a) == [t |-> "arr", a |-> a]
JNull == [t |-> "null"]

\* lines 24-34: two endpoints, three transports each, pushed in this order
endpoints == << "B/api/read/order/", "B/api/read/orders/" >>
modes == << "post-form", "post-headers", "get-headers" >>
\* Faulty variant of attemptList: each transport is tried on both endpoints in turn
attemptListByMode ==
    [k \in 1..(Len(endpoints) * Len(modes)) |->
        [url |-> endpoints[((k - 1) % Len(endpoints)) + 1],
         mode |-> modes[((k - 1) \div Len(endpoints)) + 1]]]
attemptList ==
    [k \in 1..(Len(endpoints) * Len(modes)) |->
        [url |-> endpoints[((k - 1) \div Len(modes)) + 1],
         mode |-> modes[((k - 1) % Len(modes)) + 1]]]

\* Faulty variant of configMissing: only the base URL is tested
configMissingBaseOnly(miss) == "DRS_BASE" \in miss

\* line 16: the configuration test
configMissing(miss) ==
    "DRS_BASE" \in miss \/ "DRS_DEV_KEY" \in miss \/ "DRS_API_TOKEN" \in miss

\* line 75: ok(body, h) with a null body: status 200, nothing in the body
ok == [status |-> 200, body |-> [kind |-> "empty", obj |-> <<>>]]

\* line 76: json(obj, status): the body is the JSON text of obj
json(obj, status) == [status |-> status, body |-> [kind |-> "json", obj |-> obj]]

\* line 43: JSON.parse(txt) in try/catch: parsed stays null when the text is not JSON
parse(u) == IF u.json THEN u.value ELSE JNull

\* line 47: `res.ok && parsed`: a 2xx status and a truthy parsed value
resOk(u) == u.status >= 200 /\ u.status <= 299
truthy(v) == v.t \in {"obj", "arr"} \/ (v.t = "str" /\ v.s # <<>>)

\* line 45: Object.keys(parsed) for an object or an array
keysOf(v) ==
    IF v.t = "obj" THEN [j \in 1..Len(v.o) |-> v.o[j].k]
    ELSE IF v.t = "arr" THEN [j \in 1..Len(v.a) |-> ToString(j - 1)]
    ELSE <<>>

\* pickArray, lines 132-152
topKeys == << "orders", "order", "rows", "data", "results", "baskets", "basket",
              "list", "items" >>

\* root[k] for an object: the value of the last entry with key k
hasKey(v, k) == \E j \in 1..Len(v.o) : v.o[j].k = k
getKey(v, k) ==
    LET last == CHOOSE j \in 1..Len(v.o) :
                    v.o[j].k = k /\ (\A m \in (j + 1)..Len(v.o) : v.o[m].k # k)
    IN  v.o[last].v

\* Faulty variant of firstArrayKey: the last listed key with an array wins
firstArrayKeyLast(v) ==
    LET hits == {n \in 1..Len(topKeys) :
                    hasKey(v, topKeys[n]) /\ getKey(v, topKeys[n]).t = "arr"}
    IN  IF hits = {} THEN 0 ELSE CHOOSE n \in hits : \A m \in hits : m <= n

\* lines 136-139: the first listed key whose value is an array (0 = none)
firstArrayKey(v) ==
    LET hits == {n \in 1..Len(topKeys) :
                    hasKey(v, topKeys[n]) /\ getKey(v, topKeys[n]).t = "arr"}
    IN  IF hits = {} THEN 0 ELSE Min(hits)

\* lines 141-151: the deep walk; [t |-> "none"] stands for null
RECURSIVE walk(_)
RECURSIVE walkValues(_, _)
walk(x) ==
    IF x.t = "arr" THEN x
    ELSE IF x.t = "obj" THEN walkValues(x.o, 1)
    ELSE [t |-> "none"]
walkValues(es, j) ==
    IF j > Len(es) THEN [t |-> "none"]
    ELSE LET r == walk(es[j].v)
         IN  IF r.t # "none" THEN r ELSE walkValues(es, j + 1)

pickArray(root) ==
    IF root.t = "arr" THEN root.a
    ELSE IF root.t = "obj" /\ firstArrayKey(root) # 0
         THEN getKey(root, topKeys[firstArrayKey(root)]).a
    ELSE LET r == walk(root)
         IN  IF r.t = "arr" THEN r.a ELSE <<>>

\* Upstream answers: a status and a body that is JSON text of some value, or
\* text that is not JSON
oId == Obj(<<KV("id", Str(c7))>>)
UpstreamValues ==
    { JNull,
      Obj(<<KV("error", Str(cA))>>),
      Obj(<<KV("orders", Arr(<<>>))>>),
      Arr(<<oId>>),
      Obj(<<KV("x", Str(cA)), KV("rows", Arr(<<oId>>))>>),
      Obj(<<KV("data", Obj(<<KV("nested", Obj(<<KV("orders", Arr(<<oId>>))>>))>>))>>),
      Obj(<<KV("data", Obj(<<KV("nested",
            Obj(<<KV("orders", Arr(<<Obj(<<KV("id", [t |-> "num", n |-> 1])>>)>>))>>))>>))>>),
      Obj(<<KV("items", Arr(<<oId>>)), KV("orders", Arr(<<Str(cA)>>))>>),
      Obj(<<KV("data", Obj(<<KV("k", Arr(<<oId>>))>>)), KV("list", Arr(<<Str(cA)>>))>>),
      Obj(<<KV("a", Obj(<<KV("b", Arr(<<>>))>>)), KV("c", Arr(<<oId>>))>>) }
Upstreams ==
    [status : {200, 401}, json : {TRUE}, value : UpstreamValues]
    \cup [status : {200, 401}, json : {FALSE}, value : {JNull}]

RelayRequired == {"DRS_BASE", "DRS_DEV_KEY", "DRS_API_TOKEN"}

InitRelay ==
    /\ prog = "relay"
    /\ pc = "start"
    /\ exitCode = -1
    /\ run = 1
    /\ start = "2025-01-15"
    /\ mapped = <<>>
    /\ store = <<>>
    /\ i = 0
    /\ writes = <<>>
    /\ lastResp = "none"
    /\ SyncIdle
    /\ ScrapeIdle
    /\ ExportIdle
    /\ ExtractIdle
    /\ missing \in SUBSET RelayRequired
    /\ req \in [method : {"GET", "POST", "OPTIONS"}, debug : BOOLEAN]
    /\ calls = <<>>
    /\ inflight = 0
    /\ up = NoUp
    /\ diag = NoDiag
    /\ response = NoResponse

----------------------------------------------------------------------------
(* worker.js: the fetch handler *)

\* lines 7-36: the preflight answer, the configuration test, the attempt list
RelayStart ==
    /\ prog = "relay" /\ pc = "start"
    /\ IF req.method = "OPTIONS"
       THEN response' = ok /\ pc' = "responded"
       ELSE IF configMissing(missing)
       THEN /\ response' = json([error |-> "Worker missing DRS_BASE/DRS_DEV_KEY/DRS_API_TOKEN"], 500)
            /\ pc' = "responded"
       ELSE response' = response /\ pc' = "attempt"
    /\ UNCHANGED << prog, exitCode, missing, req, calls, inflight, up, diag >>
    /\ UNCHANGED << dataVars, syncVars, scrapeVars, exportVars, extractVars >>

\* lines 38-39: the next attempt of the list is started: its fetch is sent
RelayCall ==
    /\ prog = "relay" /\ pc = "attempt"
    /\ Len(calls) < Len(attemptList)
    /\ calls' = Append(calls, attemptList[Len(calls) + 1])
    /\ inflight' = inflight + 1
    /\ pc' = "await"
    /\ UNCHANGED << prog, exitCode, missing, req, up, diag, response >>
    /\ UNCHANGED << dataVars, syncVars, scrapeVars, exportVars, extractVars >>

\* Faulty variant of RelayAnswer: an empty array never ends the sequence
RelayAnswerNonEmptyOnly ==
    /\ prog = "relay" /\ pc = "await"
    /\ inflight' = inflight - 1
    /\ \/ /\ pc' = "threw"
          /\ UNCHANGED << up, diag, response >>
       \/ \E u \in Upstreams :
            LET parsed == parse(u)
                at == calls[Len(calls)]
                d == [status |-> u.status, url |-> at.url, mode |-> at.mode,
                      keys |-> keysOf(parsed)]
            IN  /\ up' = u
                /\ IF resOk(u) /\ truthy(parsed) /\
                      Len(pickArray(parsed)) > 0
                   THEN /\ response' = json([orders |-> pickArray(parsed), source |-> at.mode], 200)
                        /\ pc' = "responded"
                        /\ diag' = diag
                   ELSE /\ diag' = d
                        /\ pc' = "attempt"
                        /\ response' = response
    /\ UNCHANGED << prog, exitCode, missing, req, calls >>
    /\ UNCHANGED << dataVars, syncVars, scrapeVars, exportVars, extractVars >>

\* Faulty variant of RelayAnswer: the diagnostics of the first attempt are kept
RelayAnswerKeepsFirst ==
    /\ prog = "relay" /\ pc = "await"
    /\ inflight' = inflight - 1
    /\ \/ /\ pc' = "threw"
          /\ UNCHANGED << up, diag, response >>
       \/ \E u \in Upstreams :
            LET parsed == parse(u)
                at == calls[Len(calls)]
                d == [status |-> u.status, url |-> at.url, mode |-> at.mode,
                      keys |-> keysOf(parsed)]
            IN  /\ up' = u
                /\ IF resOk(u) /\ truthy(parsed) /\
                      (Len(pickArray(parsed)) > 0 \/ ~req.debug)
                   THEN /\ response' = json([orders |-> pickArray(parsed), source |-> at.mode], 200)
                        /\ pc' = "responded"
                        /\ diag' = diag
                   ELSE /\ diag' = IF diag = NoDiag THEN d ELSE diag
                        /\ pc' = "attempt"
                        /\ response' = response
    /\ UNCHANGED << prog, exitCode, missing, req, calls >>
    /\ UNCHANGED << dataVars, syncVars, scrapeVars, exportVars, extractVars >>

\* lines 39-57: the upstream answers: the handler returns the array, or keeps
\* the attempt's diagnostics and goes on; a rejected fetch is not caught, the
\* handler throws and the relay itself produces no response
RelayAnswer ==
    /\ prog = "relay" /\ pc = "await"
    /\ inflight' = inflight - 1
    /\ \/ /\ pc' = "threw"
          /\ UNCHANGED << up, diag, response >>
       \/ \E u \in Upstreams :
            LET parsed == parse(u)
                at == calls[Len(calls)]
                d == [status |-> u.status, url |-> at.url, mode |-> at.mode,
                      keys |-> keysOf(parsed)]
            IN  /\ up' = u
                /\ IF resOk(u) /\ truthy(parsed) /\
                      (Len(pickArray(parsed)) > 0 \/ ~req.debug)
                   THEN /\ response' = json([orders |-> pickArray(parsed), source |-> at.mode], 200)
                        /\ pc' = "responded"
                        /\ diag' = diag
                   ELSE /\ diag' = d
                        /\ pc' = "attempt"
                        /\ response' = response
    /\ UNCHANGED << prog, exitCode, missing, req, calls >>
    /\ UNCHANGED << dataVars, syncVars, scrapeVars, exportVars, extractVars >>

\* lines 60-64: every attempt was made and none returned
RelayExhausted ==
    /\ prog = "relay" /\ pc = "attempt"
    /\ Len(calls) = Len(attemptList)
    /\ response' = IF req.debug
                   THEN json([orders |-> <<>>, diagnostics |-> diag], 502)
                   ELSE json([orders |-> <<>>, source |-> "no-array"], 200)
    /\ pc' = "responded"
    /\ UNCHANGED << prog, exitCode, missing, req, calls, inflight, up, diag >>
    /\ UNCHANGED << dataVars, syncVars, scrapeVars, exportVars, extractVars >>

NextRelay ==
    \/ RelayStart
    \/ RelayCall
    \/ RelayAnswer
    \/ RelayExhausted

SpecRelay == InitRelay /\ [][NextRelay]_vars

----------------------------------------------------------------------------
(* Export scripts (part_003, part_004): helpers and inputs *)

ExportRequired == {"DRS_LOGIN_URL", "DRS_USERNAME", "DRS_PASSWORD"}

\* part_003 need (line 126) and part_004 must (lines 122-130): a required
\* variable that is unset (part_004: or blank) ends the process with code 2
needExits(miss) == miss \cap ExportRequired # {}

\* What the reports page shows: the export control, and, once the control was
\* clicked, a URL ending in .csv that can be fetched or a body text with a
\* comma and a line break
ReportPages == [kind : {"report"}, exportBtn : BOOLEAN, csvUrl : BOOLEAN, csvBody : BOOLEAN]

\* part_003 tryGrabCSVFromPage, lines 174-186: TRUE when it returns text
tryGrabCSVFromPage(pg) == pg.csvUrl \/ pg.csvBody

\* part_003 line 91, part_004 line 96: DRS-Daily-<date>.csv
fileName(d) == IF d = "2025-01-15" THEN "DRS-Daily-2025-01-15.csv"
               ELSE "DRS-Daily-2025-01-16.csv"

\* part_003 lines 107-108: the name the download is saved under: the suggested
\* name when it ends in .csv, the date's file name otherwise
finalName(suggested, d) == IF suggested = "orders.csv" THEN suggested ELSE fileName(d)

InitExport ==
    /\ prog \in {"part_003", "part_004"}
    /\ pc = "start"
    /\ exitCode = -1
    /\ run = 1
    /\ start \in Dates
    /\ mapped = <<>>
    /\ store = <<>>
    /\ i = 0
    /\ writes = <<>>
    /\ lastResp = "none"
    /\ SyncIdle
    /\ ScrapeIdle
    /\ RelayIdle
    /\ ExportIdle
    /\ ExtractIdle
    /\ missing \in SUBSET (ExportRequired \cup {"DRS_REPORTS_URL"})

exportRest == << prog, run, start, mapped, store, i, writes, lastResp, missing,
                 loginUrl, IDX, candidates, c, loggedIn, rows, imported,
                 outstanding, snapshots, reported >>

----------------------------------------------------------------------------
(* part_003: the main function *)

\* lines 23-25 and 126: a required variable is missing: process.exit(2)
ExportNeed ==
    /\ prog = "part_003" /\ pc = "start"
    /\ needExits(missing)
    /\ Exit(2)
    /\ UNCHANGED << browser, page, visited, filled, files, dl, grabs >>
    /\ UNCHANGED << exportRest, syncVars, relayVars, extractVars >>

\* lines 33-40: mkdir, launch, new page, goto the login URL; each may throw
ExportOpen ==
    /\ prog = "part_003" /\ pc = "start"
    /\ ~needExits(missing)
    /\ \/ Throw /\ UNCHANGED << browser, page, visited >>
       \/ /\ browser' = "open"
          /\ visited' = Append(visited, "LOGIN")
          /\ \E pg \in LoginPages \cup {NoPage} :
                IF pg = NoPage
                THEN Throw /\ page' = page
                ELSE page' = pg /\ pc' = "login" /\ exitCode' = exitCode
    /\ UNCHANGED << filled, files, dl, grabs >>
    /\ UNCHANGED << exportRest, syncVars, relayVars, extractVars >>

\* lines 41-62 with fillFirst (130-136) and clickFirst (137-144): each field
\* that is found is filled, a field that is not found is passed over; the
\* submit control is required: clickFirst throws when there is none
ExportLogin ==
    /\ prog = "part_003" /\ pc = "login"
    /\ filled' = {x \in {"user", "pwd", "submit"} :
                    \/ x = "user" /\ page.user
                    \/ x = "pwd" /\ page.pwd
                    \/ x = "submit" /\ page.submit}
    /\ IF page.submit
       THEN \/ pc' = "reports" /\ exitCode' = exitCode
            \/ Throw
       ELSE Throw
    /\ UNCHANGED << browser, page, visited, files, dl, grabs >>
    /\ UNCHANGED << exportRest, syncVars, relayVars, extractVars >>

\* lines 64-88: wait, go to the reports page (a goto when DRS_REPORTS_URL is
\* set, an optional click otherwise), optional Day tab, date box
ExportReports ==
    /\ prog = "part_003" /\ pc = "reports"
    /\ filled' = {}
    /\ visited' = IF "DRS_REPORTS_URL" \in missing THEN visited
                  ELSE Append(visited, "REPORTS")
    /\ \E pg \in ReportPages \cup {NoPage} :
          IF pg = NoPage
          THEN Throw /\ page' = page
          ELSE page' = pg /\ pc' = "export" /\ exitCode' = exitCode
    /\ UNCHANGED << browser, files, dl, grabs >>
    /\ UNCHANGED << exportRest, syncVars, relayVars, extractVars >>

\* lines 94-102: the download wait is started, the export control is clicked;
\* clickFirst throws when there is no such control
ExportClick ==
    /\ prog = "part_003" /\ pc = "export"
    /\ dl' = "pending"
    /\ IF page.exportBtn
       THEN /\ filled' = {"export"}
            /\ \/ pc' = "download" /\ exitCode' = exitCode
               \/ Throw
       ELSE Throw /\ filled' = filled
    /\ UNCHANGED << browser, page, visited, files, grabs >>
    /\ UNCHANGED << exportRest, syncVars, relayVars, extractVars >>

\* lines 104-111: the download event arrives and the file is saved, or the
\* wait times out and downloadP resolves to null
ExportDownload ==
    /\ prog = "part_003" /\ pc = "download"
    /\ \/ /\ dl' = "arrived"
          /\ \/ \E suggested \in {"", "orders.csv", "orders.txt"} :
                   /\ files' = files \cup {finalName(suggested, start)}
                   /\ pc' = "close" /\ exitCode' = exitCode
             \/ Throw /\ files' = files
       \/ /\ dl' = "timeout"
          /\ pc' = "fallback"
          /\ UNCHANGED << files, exitCode >>
    /\ UNCHANGED << browser, page, visited, filled, grabs >>
    /\ UNCHANGED << exportRest, syncVars, relayVars, extractVars >>

\* Faulty variant of ExportFallback: without text the run goes on to the end
ExportFallbackSilent ==
    /\ prog = "part_003" /\ pc = "fallback"
    /\ grabs' = grabs + 1
    /\ files' = IF tryGrabCSVFromPage(page) THEN files \cup {fileName(start)}
                ELSE files \cup {"no-download.png"}
    /\ pc' = "close"
    /\ UNCHANGED << exitCode, browser, page, visited, filled, dl >>
    /\ UNCHANGED << exportRest, syncVars, relayVars, extractVars >>

\* lines 113-119: tryGrabCSVFromPage; its text is written as the date's CSV
\* file; without text: screenshot, then throw
ExportFallback ==
    /\ prog = "part_003" /\ pc = "fallback"
    /\ grabs' = grabs + 1
    /\ IF tryGrabCSVFromPage(page)
       THEN /\ files' = files \cup {fileName(start)}
            /\ pc' = "close" /\ exitCode' = exitCode
       ELSE /\ files' = files \cup {"no-download.png"}
            /\ Throw
    /\ UNCHANGED << browser, page, visited, filled, dl >>
    /\ UNCHANGED << exportRest, syncVars, relayVars, extractVars >>

\* line 122: browser.close(), the main function returns, exit code 0
ExportClose ==
    /\ prog = "part_003" /\ pc = "close"
    /\ browser' = "closed"
    /\ Exit(0)
    /\ UNCHANGED << page, visited, filled, files, dl, grabs >>
    /\ UNCHANGED << exportRest, syncVars, relayVars, extractVars >>

----------------------------------------------------------------------------
(* part_004: the main function *)

\* lines 16-20 and 122-130: a required variable is missing: process.exit(2)
Export4Must ==
    /\ prog = "part_004" /\ pc = "start"
    /\ needExits(missing)
    /\ Exit(2)
    /\ UNCHANGED << browser, page, visited, filled, files, dl, grabs >>
    /\ UNCHANGED << exportRest, syncVars, relayVars, extractVars >>

\* lines 27-32: launch, new page, goto the login URL; each may throw
Export4Open ==
    /\ prog = "part_004" /\ pc = "start"
    /\ ~needExits(missing)
    /\ \/ Throw /\ UNCHANGED << browser, page, visited >>
       \/ /\ browser' = "open"
          /\ visited' = Append(visited, "LOGIN")
          /\ \E pg \in LoginPages \cup {NoPage} :
                IF pg = NoPage
                THEN Throw /\ page' = page
                ELSE page' = pg /\ pc' = "login" /\ exitCode' = exitCode
    /\ UNCHANGED << filled, files, dl, grabs >>
    /\ UNCHANGED << exportRest, syncVars, relayVars, extractVars >>

\* lines 33-53 with fillFirst (132-138) and clickFirst (140-146): the first
\* control that is not found throws; the controls before it have been used
Export4Login ==
    /\ prog = "part_004" /\ pc = "login"
    /\ filled' = IF ~page.user THEN {}
                 ELSE IF ~page.pwd THEN {"user"}
                 ELSE IF ~page.submit THEN {"user", "pwd"}
                 ELSE {"user", "pwd", "submit"}
    /\ IF page.user /\ page.pwd /\ page.submit
       THEN \/ pc' = "reports" /\ exitCode' = exitCode
            \/ Throw
       ELSE Throw
    /\ UNCHANGED << browser, page, visited, files, dl, grabs >>
    /\ UNCHANGED << exportRest, syncVars, relayVars, extractVars >>

\* lines 56-91: the page settles; a password field that is still there
\* throws; then the reports page, the Daily report and the date, best effort
Export4Reports ==
    /\ prog = "part_004" /\ pc = "reports"
    /\ \E after \in LoginPages :
          IF hasPasswordField(after)
          THEN /\ Throw
               /\ page' = after
               /\ UNCHANGED << filled, visited >>
          ELSE /\ filled' = {}
               /\ visited' = IF "DRS_REPORTS_URL" \in missing THEN visited
                             ELSE Append(visited, "REPORTS")
               /\ \E pg \in ReportPages \cup {NoPage} :
                     IF pg = NoPage
                     THEN Throw /\ page' = after
                     ELSE page' = pg /\ pc' = "export" /\ exitCode' = exitCode
    /\ UNCHANGED << browser, files, dl, grabs >>
    /\ UNCHANGED << exportRest, syncVars, relayVars, extractVars >>

\* lines 95-110: Promise.all of the download wait and the click on the
\* export control: a missing control throws, and so does a wait that times out
Export4Download ==
    /\ prog = "part_004" /\ pc = "export"
    /\ IF page.exportBtn
       THEN /\ filled' = {"export"}
            /\ \/ dl' = "arrived" /\ pc' = "save" /\ exitCode' = exitCode
               \/ dl' = "timeout" /\ Throw
       ELSE /\ dl' = "pending"
            /\ Throw
            /\ filled' = filled
    /\ UNCHANGED << browser, page, visited, files, grabs >>
    /\ UNCHANGED << exportRest, syncVars, relayVars, extractVars >>

\* lines 112-113: download.saveAs(targetPath); it may throw
Export4Save ==
    /\ prog = "part_004" /\ pc = "save"
    /\ \/ /\ files' = files \cup {fileName(start)}
          /\ pc' = "close" /\ exitCode' = exitCode
       \/ Throw /\ files' = files
    /\ UNCHANGED << browser, page, visited, filled, dl, grabs >>
    /\ UNCHANGED << exportRest, syncVars, relayVars, extractVars >>

\* line 115: browser.close(), the main function returns, exit code 0
Export4Close ==
    /\ prog = "part_004" /\ pc = "close"
    /\ browser' = "closed"
    /\ Exit(0)
    /\ UNCHANGED << page, visited, filled, files, dl, grabs >>
    /\ UNCHANGED << exportRest, syncVars, relayVars, extractVars >>

NextExport ==
    \/ ExportNeed
    \/ ExportOpen
    \/ ExportLogin
    \/ ExportReports
    \/ ExportClick
    \/ ExportDownload
    \/ ExportFallback
    \/ ExportClose
    \/ Export4Must
    \/ Export4Open
    \/ Export4Login
    \/ Export4Reports
    \/ Export4Download
    \/ Export4Save
    \/ Export4Close

SpecExport == InitExport /\ [][NextExport]_vars

----------------------------------------------------------------------------
(* drs-scrape.mjs extractTable: helpers *)

\* clean(s), line 219: runs of white space become one blank, then trim
RECURSIVE collapse(_)
collapse(s) ==
    IF s = <<>> THEN <<>>
    ELSE IF Head(s) = " " THEN << " " >> \o collapse(trimStart(Tail(s)))
    ELSE << Head(s) >> \o collapse(Tail(s))
clean(s) == trim(collapse(s))
cleanAll(cells) == [j \in 1..Len(cells) |-> clean(cells[j])]

\* toLowerCase / toUpperCase on the letters the inputs use
lowerChar(ch) ==
    CASE ch = "A" -> "a" [] ch = "B" -> "b" [] ch = "C" -> "c" [] ch = "M" -> "m"
      [] ch = "O" -> "o" [] ch = "S" -> "s" [] OTHER -> ch
upperChar(ch) ==
    CASE ch = "a" -> "A" [] ch = "b" -> "B" [] ch = "c" -> "C" [] ch = "m" -> "M"
      [] ch = "o" -> "O" [] ch = "s" -> "S" [] OTHER -> ch
lowerText(s) == [j \in 1..Len(s) |-> lowerChar(s[j])]

\* line 220
keywords ==
    << << "c", "u", "s", "t", "o", "m", "e", "r" >>,
       << "a", "d", "d", "r", "e", "s", "s" >>,
       << "p", "h", "o", "n", "e" >>,
       << "s", "i", "z", "e" >>,
       << "o", "r", "d", "e", "r" >>,
       << "s", "t", "a", "t", "u", "s" >> >>

\* h.includes(k)
includes(h, k) ==
    \E p \in 0..(Len(h) - Len(k)) : SubSeq(h, p + 1, p + Len(k)) = k

\* lines 228 and 248: the number of cells that contain a keyword, case-insensitively
hdrScore(hs) ==
    Cardinality({j \in 1..Len(hs) :
        \E n \in 1..Len(keywords) : includes(lowerText(hs[j]), keywords[n])})

\* `col${i+1}`, for up to nine columns
colName(n) == << "c", "o", "l", ToString(n) >>

\* row[k] = v on an object kept as its entries in insertion order (no label
\* of the inputs is an integer, so insertion order is iteration order)
setKey(row, k, v) ==
    IF \E j \in 1..Len(row) : row[j].k = k
    THEN [j \in 1..Len(row) |-> IF row[j].k = k THEN KV(k, v) ELSE row[j]]
    ELSE Append(row, KV(k, v))

\* lines 225-230: the header cells: every th of the table, or the cells of
\* the first row when the table has no th and one of them holds a keyword
RECURSIVE allTh(_)
allTh(trs) == IF trs = <<>> THEN <<>> ELSE cleanAll(Head(trs).th) \o allTh(Tail(trs))
tableThs(t) ==
    IF allTh(t.trs) = <<>> /\ Len(t.trs) > 0 /\ hdrScore(cleanAll(t.trs[1].td)) > 0
    THEN cleanAll(t.trs[1].td)
    ELSE allTh(t.trs)

\* line 232
startRow(t) == IF tableThs(t) # <<>> /\ Len(t.trs) > 0 /\ ~t.thead THEN 1 ELSE 0

\* line 234: the cleaned td texts of the row, the empty ones filtered out
cellsOf(tr) == SelectSeq(cleanAll(tr.td), LAMBDA x : x # <<>>)

\* lines 238-241: the header loop, then the cells beyond the headers
RECURSIVE headerLoop(_, _, _, _)
headerLoop(row, headers, cells, n) ==
    IF n > Len(headers) THEN row
    ELSE headerLoop(setKey(row, IF headers[n] # <<>> THEN headers[n] ELSE colName(n),
                           IF n <= Len(cells) THEN cells[n] ELSE <<>>),
                    headers, cells, n + 1)
RECURSIVE cellLoop(_, _, _)
cellLoop(row, cells, n) ==
    IF n > Len(cells) THEN row
    ELSE cellLoop(setKey(row, colName(n), cells[n]), cells, n + 1)

\* lines 236-245: the row object of a tr that has a non-empty cell
bodyRow(tr, headers) ==
    IF headers # <<>>
    THEN cellLoop(headerLoop(<<>>, headers, cellsOf(tr), 1), cellsOf(tr), Len(headers) + 1)
    ELSE cellLoop(<<>>, cellsOf(tr), 1)

\* lines 233-246: trs.slice(startRow).map(...).filter(Boolean)
RECURSIVE bodyRowsFrom(_, _, _)
bodyRowsFrom(trs, headers, n) ==
    IF n > Len(trs) THEN <<>>
    ELSE (IF cellsOf(trs[n]) = <<>> THEN <<>> ELSE << bodyRow(trs[n], headers) >>)
         \o bodyRowsFrom(trs, headers, n + 1)

\* lines 222-250: the pack of a table
pack(t) ==
    [headers |-> tableThs(t), score |-> hdrScore(tableThs(t)),
     rows |-> bodyRowsFrom(t.trs, tableThs(t), startRow(t) + 1)]

\* Faulty variant of compare: the row count is compared before the score
compareRowsFirst(a, b) ==
    IF Len(b.rows) - Len(a.rows) # 0 THEN Len(b.rows) - Len(a.rows) ELSE b.score - a.score

\* line 253: the comparator (b.score - a.score) || (b.rows.length - a.rows.length)
compare(a, b) ==
    IF b.score - a.score # 0 THEN b.score - a.score ELSE Len(b.rows) - Len(a.rows)

\* packs.sort(...): Array.prototype.sort is stable: a pack is placed behind
\* every pack that does not have to come after it
RECURSIVE insertPack(_, _)
insertPack(s, x) ==
    IF s = <<>> THEN << x >>
    ELSE IF compare(Head(s), x) <= 0 THEN << Head(s) >> \o insertPack(Tail(s), x)
    ELSE << x >> \o s
RECURSIVE sortPacks(_)
sortPacks(ps) ==
    IF ps = <<>> THEN <<>>
    ELSE insertPack(sortPacks(SubSeq(ps, 1, Len(ps) - 1)), ps[Len(ps)])

\* line 254: packs[0] || { headers: [], rows: [] }
bestOf(ps) ==
    IF ps = <<>> THEN [headers |-> <<>>, rows |-> <<>>] ELSE sortPacks(ps)[1]

\* lines 261 and 267: each word's first letter in upper case, the rest in lower case
titleCase(k) ==
    [j \in 1..Len(k) |-> IF j = 1 \/ k[j - 1] = " " THEN upperChar(k[j]) ELSE lowerChar(k[j])]

\* line 260: /^col\d+$/i
isColKey(k) ==
    /\ Len(k) >= 4
    /\ lowerText(SubSeq(k, 1, 3)) = << "c", "o", "l" >>
    /\ \A j \in 4..Len(k) : k[j] \in {"0", "1", "2", "3", "4", "5", "6", "7", "8", "9"}

\* lines 257-265: the keys are title-cased, col# keys are left alone; two
\* keys with the same title-cased form end up as one entry
RECURSIVE normRow(_, _, _)
normRow(out, r, n) ==
    IF n > Len(r) THEN out
    ELSE normRow(setKey(out, IF isColKey(r[n].k) THEN r[n].k ELSE titleCase(r[n].k), r[n].v),
                 r, n + 1)

\* lines 218-271
extractTable(tbls) ==
    LET best == bestOf([n \in 1..Len(tbls) |-> pack(tbls[n])])
    IN  [rows |-> [n \in 1..Len(best.rows) |-> normRow(<<>>, best.rows[n], 1)],
         headers |-> [n \in 1..Len(best.headers) |-> titleCase(best.headers[n])]]

----------------------------------------------------------------------------
(* drs-scrape.mjs extractTable: inputs and the call *)

MaxTrs == 2         \* body rows of a table
MaxTables == 2      \* tables of a page with more than one table

cSize == << "S", "i", "z", "e" >>
cOrder == << "O", "r", "d", "e", "r" >>

\* td cells of a row, th cells of a header row
TdRows == { <<>>, << << " " >> >>, << cA >>, << cA, c7 >>, << <<>>, cA >>,
            << cSize, cOrder >>, << cA, c7, cSize >> }
ThRows == { << cSize >>, << cSize, cSize >>, << cSize, cOrder >>,
            << << "m", "y", " ", " ", "s", "i", "z", "e" >>, cA >>, << <<>>, cOrder >> }

\* A table: its tr elements in DOM order, and whether it has a thead
tableOf(hd, h, body) ==
    [thead |-> hd,
     trs |-> (IF h = <<>> THEN <<>> ELSE << [th |-> h, td |-> <<>>] >>)
             \o [j \in 1..Len(body) |-> [th |-> <<>>, td |-> body[j]]]]
Tables ==
    LET Bodies == UNION { [1..n -> TdRows] : n \in 0..MaxTrs }
    IN  { tableOf(FALSE, <<>>, b) : b \in Bodies }
        \cup { tableOf(hd, h, b) : hd \in BOOLEAN, h \in ThRows, b \in Bodies }

\* Tables that differ in score, in row count, or in content only
TableCatalogue ==
    { tableOf(TRUE, << cSize, cOrder >>, << << cA, c7 >> >>),
      tableOf(TRUE, << cSize >>, << << cA >>, << c7 >> >>),
      tableOf(TRUE, << cSize >>, << << cA >> >>),
      tableOf(FALSE, << cOrder >>, << << c7 >> >>),
      tableOf(FALSE, <<>>, << << cA, c7 >>, << cA >> >>),
      tableOf(FALSE, <<>>, <<>>) }

\* Pages: no table, one table, or several tables of the catalogue
Doms ==
    { <<>> } \cup { << t >> : t \in Tables }
    \cup UNION { [1..n -> TableCatalogue] : n \in 2..MaxTables }

InitExtract ==
    /\ prog = "extractTable"
    /\ pc = "start"
    /\ exitCode = -1
    /\ run = 1
    /\ start = "2025-01-15"
    /\ mapped = <<>>
    /\ store = <<>>
    /\ i = 0
    /\ writes = <<>>
    /\ lastResp = "none"
    /\ missing = {}
    /\ SyncIdle
    /\ ScrapeIdle
    /\ RelayIdle
    /\ ExportIdle
    /\ dom \in Doms
    /\ payload = NoPayload

\* lines 216-272: page.$$eval("table", ...) returns the payload
ExtractTable ==
    /\ prog = "extractTable" /\ pc = "start"
    /\ payload' = extractTable(dom)
    /\ pc' = "done"
    /\ UNCHANGED << prog, exitCode, missing, dom >>
    /\ UNCHANGED << dataVars, syncVars, scrapeVars, relayVars, exportVars >>

SpecExtract == InitExtract /\ [][ExtractTable]_vars

----------------------------------------------------------------------------
(* Any of the scripts *)

Init == InitSync \/ InitScrape \/ InitRelay \/ InitExport \/ InitExtract
Next == NextSync \/ NextScrape \/ NextRelay \/ NextExport \/ ExtractTable
Spec == Init /\ [][Next]_vars

----------------------------------------------------------------------------
(* Properties of the relay-sync script (part_002) *)

SameKey(a, b) == a.date = b.date /\ a.order = b.order

\* The run that just ended was complete and directly follows a complete run
\* with the same records for the same date.
SecondRunDone ==
    /\ prog = "sync" /\ pc = "exited" /\ exitCode = 0
    /\ run > 1 /\ prev.done /\ prev.date = start

\* C1: two runs in succession with the same kept records for the same date
\* leave the store with the same number of entries after the second run as
\* after the first: the second run issues only updates and no create.  Stated
\* for record sets in which every kept record has an order number (a record
\* without one is created anew by every run, see C4).
C1_SecondRunOnlyUpdates ==
    (SecondRunDone /\ \A k \in 1..Len(mapped) : mapped[k].order # <<>>)
        => (created = 0 /\ updated = Len(mapped) /\ Len(store) = prev.size)

\* C2: after complete runs for one date, starting from an empty store, the
\* store holds at most one entry for each pair (date, non-empty order number).
C2_OneEntryPerKey ==
    (prog = "sync" /\ pc = "exited" /\ exitCode = 0 /\ prev.clean)
        => \A a, b \in 1..Len(store) :
              (a # b /\ store[a].order # <<>>) => ~SameKey(store[a], store[b])

\* C3: for every kept record with a non-empty order number exactly one write
\* is issued: an update of the matched entry when the store holds an entry
\* with the record's date and order number, and a create otherwise; a create
\* is never issued while a matching entry exists.
C3_UpsertDecision ==
    prog = "sync" =>
        /\ \A k \in 1..Len(writes) :
              /\ writes[k].rec = k
              /\ writes[k].op = (IF writes[k].id # 0 THEN "update" ELSE "create")
        /\ (pc \in {"find", "write"} => Len(writes) = i - 1)
        /\ (pc = "write" /\ mapped[i].order # <<>>) =>
              /\ id # 0 <=> \E n \in 1..Len(store) : SameKey(store[n], mapped[i])
              /\ id # 0 => SameKey(store[id], mapped[i])

\* C4: a kept record whose order number is empty is never matched against an
\* existing entry: no lookup query is sent for it and it is written with a
\* create, never with an update.
C4_EmptyOrderAlwaysCreate ==
    prog = "sync" =>
        /\ \A k \in 1..Len(lookups) : mapped[lookups[k]].order # <<>>
        /\ \A k \in 1..Len(writes) :
              mapped[writes[k].rec].order = <<>> => writes[k].op = "create"
        /\ (pc = "write" /\ mapped[i].order = <<>>) => id = 0

\* C4 witness: a record without order number has been created although the
\* store already held an entry of the same date without order number.
C4_Witness ==
    /\ prog = "sync" /\ pc = "exited" /\ exitCode = 0
    /\ \E k \in 1..Len(writes) :
          /\ mapped[writes[k].rec].order = <<>>
          /\ writes[k].op = "create"
          /\ Cardinality({n \in 1..Len(store) :
                            SameKey(store[n], mapped[writes[k].rec])}) >= 2

----------------------------------------------------------------------------
(* Properties of the scraper (drs-scrape.mjs) *)

\* The records handed to the store in a create or update call of this run
SentRecords ==
    IF prog = "sync"
    THEN {mapped[writes[k].rec] : k \in 1..Len(writes)}
    ELSE UNION {{writes[k].recs[n] : n \in 1..Len(writes[k].recs)} : k \in 1..Len(writes)}

NoKeyField(r) == r.customer = <<>> /\ r.address = <<>> /\ r.order = <<>>
AllBlank(r) ==
    \A v \in {r.customer, r.address, r.phone, r.size, r.order, r.status} : trim(v) = <<>>

IsPrefix(a, b) == Len(a) <= Len(b) /\ a = SubSeq(b, 1, Len(a))

RECURSIVE ConcatRecs(_)
ConcatRecs(ws) == IF ws = <<>> THEN <<>> ELSE Head(ws).recs \o ConcatRecs(Tail(ws))

\* C6: when the store rejects a batch the error is written to the error
\* artifact, no later batch is sent, the run ends with a non-zero exit code
\* and never reports success.
C6_RejectedBatchAborts ==
    (prog = "scrape" /\ lastResp = "rejected") =>
        /\ "airtable-error.txt" \in files
        /\ pc = "exited" /\ exitCode > 0
        /\ ~reported
        /\ outstanding = 0
        /\ store = ConcatRecs(SubSeq(writes, 1, Len(writes) - 1))
        /\ imported = Len(store)

\* C6 witness: the second batch was rejected after the first was stored.
C6_Witness ==
    /\ prog = "scrape" /\ lastResp = "rejected"
    /\ Len(writes) = 2 /\ Len(store) = BatchSize

\* C7: the create calls partition the kept sequence in order, each carries
\* between 1 and 10 records, only the last may carry fewer than 10, a batch is
\* sent only after the one before it has completed, and at most one store
\* write is outstanding at any time.
C7_SequentialBatches ==
    prog = "scrape" =>
        /\ \A k \in 1..Len(writes) :
              /\ Len(writes[k].recs) >= 1 /\ Len(writes[k].recs) <= 10
              /\ k < Len(writes) => Len(writes[k].recs) = 10
        /\ IsPrefix(ConcatRecs(writes), mapped)
        /\ (pc \in {"summary", "close"} \/ (pc = "exited" /\ exitCode = 0))
              => ConcatRecs(writes) = mapped
        /\ outstanding \in {0, 1}
        /\ outstanding = 1 <=> pc = "await"
        /\ pc = "await" => store = ConcatRecs(SubSeq(writes, 1, Len(writes) - 1))
        /\ (pc # "await" /\ lastResp # "rejected") => store = ConcatRecs(writes)

\* C7 witness: a run completed with a full batch followed by a shorter one.
C7_Witness ==
    /\ prog = "scrape" /\ pc = "exited" /\ exitCode = 0
    /\ Len(writes) = 2
    /\ Len(writes[1].recs) = 10 /\ Len(writes[2].recs) \in 1..9

ConventionalPaths ==
    << "B/login/", "B/users/login/", "B/account/login/", "B/admin/login/", "B/" >>

LoginVisits == SelectSeq(visited, LAMBDA u : u # "ORDERS")

\* C8: candidate URLs are visited in list order (the explicit login URL first
\* when set, then the conventional paths, then the bare base URL), each list
\* position at most once; the run becomes authenticated at the first candidate
\* for which tryLogin returns true or whose page has no password field, and no
\* later candidate is visited after that.
C8_Order ==
    (prog = "scrape" /\ browser # "none") =>
        /\ candidates = (IF loginUrl # "" THEN <<loginUrl>> ELSE <<>>) \o ConventionalPaths
        /\ IsPrefix(LoginVisits, candidates)
        /\ loggedIn => Len(LoginVisits) = c
        /\ (~loggedIn /\ pc = "tryLogin") => Len(LoginVisits) = c
        /\ (~loggedIn /\ pc \in {"goto", "loginFailed"}) => Len(LoginVisits) = c - 1

C8_Step ==
    (prog = "scrape" /\ pc = "tryLogin" /\ pc' # "exited") =>
        /\ loggedIn' <=> \/ ({"user", "pwd"} \subseteq filled' /\ (~page'.pwd \/ page'.logout))
                         \/ ~page'.pwd
        /\ loggedIn' => (pc' = "orders" /\ c' = c)
        /\ ~loggedIn' => (c' = c + 1 /\ pc' \in {"goto", "loginFailed"})

C9_LoginFailureAborts ==
    prog = "scrape" =>
        /\ pc = "loginFailed" => (~loggedIn /\ LoginVisits = candidates)
        /\ (~loggedIn /\ c > Len(candidates) /\ pc # "loginFailed" /\ browser # "none")
              => "login-failed" \in {snapshots[k] : k \in 1..Len(snapshots)}
        /\ "login-failed" \in {snapshots[k] : k \in 1..Len(snapshots)} =>
              /\ pc = "exited" /\ exitCode > 0
              /\ LoginVisits = visited
              /\ rows = <<>> /\ "orders.json" \notin files
              /\ writes = <<>> /\ store = <<>> /\ outstanding = 0

\* C9 witness: the run has ended after the login-failed snapshot.
C9_Witness ==
    /\ prog = "scrape" /\ pc = "exited"
    /\ snapshots = << "login-failed" >>
    /\ Len(visited) = 6

\* C10: in every run that launched a browser, the browser session is closed
\* before the process ends, on the success path and on every failure path.
C10_BrowserClosedAtExit ==
    (prog = "scrape" /\ pc = "exited" /\ browser # "none") => browser = "closed"

\* C18: in the scraper a missing start-date input, end-date input or filter
\* button causes no failure and no interaction with the absent control; and
\* when extraction yields zero rows the run takes the "no-rows" snapshot,
\* sends no write to the store and ends with exit code 0.
C18_MissingControlsAndNoRows ==
    (prog = "scrape" /\ page.kind = "orders") =>
        /\ "start" \in filled => page.startInput
        /\ "end" \in filled => page.endInput
        /\ "filterBtn" \in filled => page.filterBtn
        /\ (pc = "exited" /\ "orders.json" \notin files) => page.filterBtn
        /\ ("orders.json" \in files /\ rows = <<>>) =>
              /\ snapshots = << "no-rows" >>
              /\ writes = <<>> /\ store = <<>> /\ outstanding = 0
              /\ pc = "exited" => exitCode = 0

\* C18 witness: a run on an orders page without any of the three controls,
\* with no extracted row, has ended.
C18_Witness ==
    /\ prog = "scrape" /\ pc = "exited" /\ exitCode = 0
    /\ page = [kind |-> "orders", startInput |-> FALSE, endInput |-> FALSE, filterBtn |-> FALSE]
    /\ rows = <<>> /\ snapshots = << "no-rows" >>

\* C20: once both fields were found and the form was submitted, the login
\* attempt succeeds if and only if, on the page as it is after it settled, the
\* password field is absent or a Logout element is present.
C20_TryLoginResult ==
    (/\ prog = "scrape" /\ pc \in {"orders", "goto", "loginFailed"}
     /\ filled \cap {"submit", "Enter"} # {})
        => (loggedIn <=> (~page.pwd \/ page.logout))

\* C20 witness: a submitted login succeeded on a page that still shows the
\* password field, because it shows a Logout element.
C20_Witness ==
    /\ prog = "scrape" /\ pc = "orders"
    /\ filled = {"user", "pwd", "Enter"}
    /\ page.kind = "login" /\ page.pwd /\ page.logout
    /\ loggedIn

\* The value of a canonical field as a reader of the row finds it: the first
\* synonym, in list order, with a non-empty value; else the cell col<ix> when
\* an index is configured and the cell is non-empty; else the empty string
Resolved(r, syns, ix) ==
    IF \E j \in 1..Len(syns) : syns[j] \in DOMAIN r /\ r[syns[j]] # <<>>
    THEN LET j == CHOOSE j \in 1..Len(syns) :
                    /\ syns[j] \in DOMAIN r /\ r[syns[j]] # <<>>
                    /\ \A m \in 1..(j - 1) : ~(syns[m] \in DOMAIN r /\ r[syns[m]] # <<>>)
         IN  r[syns[j]]
    ELSE IF ix # 0 /\ colKey(ix) \in DOMAIN r THEN r[colKey(ix)]
    ELSE <<>>
ResolvedRecord(r) ==
    [ date     |-> start,
      customer |-> Resolved(r, <<"Customer", "Name", "Client">>, IDX.customer),
      address  |-> Resolved(r, <<"Address", "Delivery Address">>, IDX.address),
      phone    |-> Resolved(r, <<"Phone", "Phone Number">>, IDX.phone),
      size     |-> Resolved(r, <<"Dumpster Size", "Size">>, IDX.size),
      order    |-> Resolved(r, <<"Order", "Order ID", "ID">>, IDX.order),
      status   |-> Resolved(r, <<"Status">>, IDX.status) ]
NotBlank(rec) == ~AllBlank(rec)

\* C26: for each canonical field of a row of the table the scraper's mapping
\* yields the value of the first synonym, in list order, whose value in the
\* row is non-empty; if there is none, the value of col<index> when an index
\* override is configured and that cell is non-empty; otherwise the empty
\* string.
C26_ResolutionOrder ==
    (prog = "scrape" /\ pc \in {"batch", "await", "summary"}) =>
        mapped = SelectSeq([n \in 1..Len(rows) |-> ResolvedRecord(rows[n])], NotBlank)

\* A row whose first synonym is empty and whose second and third are not has
\* been mapped with an index override configured
C26_Witness ==
    /\ prog = "scrape" /\ pc = "summary"
    /\ IDX.customer = 1
    /\ \E n \in 1..Len(rows) :
          /\ "Customer" \in DOMAIN rows[n] /\ rows[n]["Customer"] = <<>>
          /\ "Name" \in DOMAIN rows[n] /\ "Client" \in DOMAIN rows[n] /\ "col1" \in DOMAIN rows[n]
          /\ rows[n]["Name"] # rows[n]["Client"]
    /\ \E n \in 1..Len(rows) :
          /\ DOMAIN rows[n] = {"col1", "col2"}
          /\ \E k \in 1..Len(mapped) : mapped[k].customer = rows[n]["col1"]
    /\ \E k \in 1..Len(mapped) : mapped[k].customer = c7

----------------------------------------------------------------------------
(* Properties of the relay (worker.js) *)

Responded == prog = "relay" /\ pc = "responded"

\* The response is a 200 whose `source` names a transport mode
ModeResponse ==
    /\ Responded
    /\ response.status = 200
    /\ response.body.kind = "json"
    /\ "source" \in DOMAIN response.body.obj
    /\ \E n \in 1..Len(modes) : response.body.obj.source = modes[n]

\* C11: a 200 response whose source names a transport mode is returned only
\* when that attempt's upstream response was 2xx, parsed as JSON and yielded a
\* non-empty array, with debug on or off.
C11_ModeResponseHasArray ==
    ModeResponse =>
        /\ resOk(up) /\ up.json
        /\ Len(pickArray(parse(up))) > 0
        /\ response.body.obj.orders = pickArray(parse(up))

\* The six upstream calls in the order the claim states
FixedOrder ==
    << [url |-> "B/api/read/order/", mode |-> "post-form"],
       [url |-> "B/api/read/order/", mode |-> "post-headers"],
       [url |-> "B/api/read/order/", mode |-> "get-headers"],
       [url |-> "B/api/read/orders/", mode |-> "post-form"],
       [url |-> "B/api/read/orders/", mode |-> "post-headers"],
       [url |-> "B/api/read/orders/", mode |-> "get-headers"] >>

\* C12 (state part): the upstream calls made so far are the first calls of the
\* fixed order, at most one call is unanswered at any time, and a returned
\* result is the result of the last call made.
C12_Order ==
    prog = "relay" =>
        /\ IsPrefix(calls, FixedOrder)
        /\ inflight <= 1
        /\ ModeResponse =>
              /\ inflight = 0
              /\ response.body.obj.source = calls[Len(calls)].mode

\* C12 (step part): a call is made only while no other call is unanswered,
\* and no call is made once the handler has returned or thrown.
C12_Step ==
    prog = "relay" =>
        /\ calls' # calls => (inflight = 0 /\ pc = "attempt")
        /\ pc \in {"responded", "threw"} => calls' = calls

\* C12: for one inbound request the upstream calls are made one at a time in
\* the fixed order (endpoint order with post-form, post-headers, get-headers,
\* then endpoint orders with the same three), at most six are made, and none
\* is made after the attempt whose result is returned.
C12_SequentialAttempts == []C12_Order /\ [][C12_Step]_vars

\* C12 witness: the sixth attempt's result was returned.
C12_Witness == ModeResponse /\ Len(calls) = 6

\* The request reached the attempt loop: not a preflight, configuration present
Attempting == prog = "relay" /\ req.method # "OPTIONS" /\ ~configMissing(missing)

\* The latest upstream response yielded a usable array: 2xx, JSON, non-empty array
UsableArray(u) == resOk(u) /\ u.json /\ Len(pickArray(parse(u))) > 0

\* C13: when no attempt yields a usable array the relay answers 200 with
\* {orders: [], source: "no-array"} if debug is off and 502 with
\* {orders: [], diagnostics} if debug=1; a response has status 502 or carries
\* diagnostics only when debug=1; and a non-2xx or non-JSON upstream response
\* never ends the attempt sequence: the sequence ends without a usable array
\* only after all six attempts.
C13_NoUsableArray ==
    Responded =>
        /\ (Attempting /\ ~UsableArray(up)) =>
              /\ Len(calls) = Len(FixedOrder)
              /\ response = IF req.debug
                            THEN json([orders |-> <<>>, diagnostics |-> diag], 502)
                            ELSE json([orders |-> <<>>, source |-> "no-array"], 200)
        /\ (response.status = 502 \/ "diagnostics" \in DOMAIN response.body.obj)
              => req.debug
        /\ (Attempting /\ ~(resOk(up) /\ up.json)) => Len(calls) = Len(FixedOrder)

\* C14: whenever the handler has finished with a request (GET, POST or
\* OPTIONS, configuration missing or not, upstream calls failing or throwing)
\* it has produced a response whose body parses as JSON.
C14_EveryResponseIsJson ==
    (prog = "relay" /\ pc \in {"responded", "threw"}) => response.body.kind = "json"

\* The values of a JSON value in document order: the value itself, then the
\* values under each of its keys in turn
RECURSIVE Preorder(_)
RECURSIVE PreorderFrom(_, _)
Preorder(v) == IF v.t = "obj" THEN << v >> \o PreorderFrom(v.o, 1) ELSE << v >>
PreorderFrom(es, j) ==
    IF j > Len(es) THEN <<>> ELSE Preorder(es[j].v) \o PreorderFrom(es, j + 1)

ListedKeys == << "orders", "order", "rows", "data", "results", "baskets", "basket",
                 "list", "items" >>
ArrayUnder(v, k) == \E j \in 1..Len(v.o) : v.o[j].k = k /\ v.o[j].v.t = "arr"

\* The array the claim names for a parsed value
ExpectedArray(v) ==
    IF v.t = "arr" THEN v.a
    ELSE IF v.t = "obj" /\ \E n \in 1..Len(ListedKeys) : ArrayUnder(v, ListedKeys[n])
    THEN LET n == CHOOSE n \in 1..Len(ListedKeys) :
                    /\ ArrayUnder(v, ListedKeys[n])
                    /\ \A m \in 1..(n - 1) : ~ArrayUnder(v, ListedKeys[m])
             j == CHOOSE j \in 1..Len(v.o) : v.o[j].k = ListedKeys[n]
         IN  v.o[j].v.a
    ELSE LET arrs == SelectSeq(Preorder(v), LAMBDA x : x.t = "arr")
         IN  IF arrs = <<>> THEN <<>> ELSE arrs[1].a

\* C28: pickArray returns the root when the root is an array; otherwise the
\* value of the first key, in the order orders, order, rows, data, results,
\* baskets, basket, list, items, whose top-level value is an array; otherwise
\* the first array met in a depth-first walk of the object's values;
\* otherwise an empty array. For {data:{nested:{orders:[{id:1}]}}} it is
\* [{id:1}].
C28_PickArray ==
    (ModeResponse /\ Len(calls) > 0) =>
        /\ response.body.obj.orders = ExpectedArray(parse(up))
        /\ parse(up) = Obj(<<KV("data", Obj(<<KV("nested",
               Obj(<<KV("orders", Arr(<<Obj(<<KV("id", [t |-> "num", n |-> 1])>>)>>))>>))>>))>>)
             => response.body.obj.orders = << Obj(<<KV("id", [t |-> "num", n |-> 1])>>) >>

\* The relay answered with the array of a listed key that is not the first
\* key of the object
C28_Witness ==
    /\ ModeResponse
    /\ up.json
    /\ up.value = Obj(<<KV("items", Arr(<<oId>>)), KV("orders", Arr(<<Str(cA)>>))>>)
    /\ response.body.obj.orders = << Str(cA) >>

\* C29 (step): with debug off an answer that is 2xx and parses to a truthy
\* value ends the sequence with a 200 carrying whatever pickArray yields; with
\* debug=1 such an answer with an empty array leaves the relay at the next
\* attempt; a response ends the attempts; and the attempts are made one
\* after the other.
C29_Step ==
    /\ (prog = "relay" /\ pc = "await" /\ pc' # "threw" /\ resOk(up') /\ truthy(parse(up'))) =>
          /\ ~req.debug =>
                /\ pc' = "responded"
                /\ response'.status = 200
                /\ response'.body.obj.orders = pickArray(parse(up'))
          /\ (req.debug /\ pickArray(parse(up')) = <<>>) =>
                pc' = "attempt" /\ response' = response
    /\ (prog = "relay" /\ pc = "responded") => calls' = calls
    /\ (prog = "relay" /\ pc = "attempt" /\ Len(calls) < Len(attemptList)) =>
          (pc' = "await" /\ Len(calls') = Len(calls) + 1)

\* C29: with debug off the relay returns 200 at the first attempt whose
\* upstream response is 2xx and parses to a truthy JSON value, with whatever
\* array pickArray yields (possibly empty), and makes no later attempt; with
\* debug=1 an empty array does not end the sequence and the relay goes on to
\* the next attempt.
C29_FirstTruthyAnswerReturns == [][C29_Step]_vars

\* With debug off the relay returned an empty array before its last attempt
C29_Witness ==
    /\ ModeResponse
    /\ ~req.debug
    /\ response.body.obj.orders = <<>>
    /\ Len(calls) > 1 /\ Len(calls) < Len(attemptList)

\* C30: the diagnostics object of a 502 debug response describes exactly the
\* last attempt made (second endpoint, get-headers): an attempt that does not
\* return overwrites the diagnostics of the attempts before it, so nothing of
\* earlier attempts is reported.
C30_DiagnosticsOfLastAttempt ==
    (Responded /\ response.status = 502) =>
        /\ Len(calls) = Len(attemptList)
        /\ response.body.obj.diagnostics =
              [status |-> up.status, url |-> "B/api/read/orders/", mode |-> "get-headers",
               keys |-> keysOf(parse(up))]

\* A 502 whose diagnostics carry the keys of the last answer
C30_Witness ==
    /\ Responded /\ response.status = 502
    /\ up.status = 200 /\ up.json
    /\ response.body.obj.diagnostics.keys = << "a", "c" >>
    /\ response.body.obj.diagnostics.url = calls[Len(calls)].url

----------------------------------------------------------------------------
(* Properties of more than one program *)

C19_Step ==
    (/\ \/ prog = "scrape" /\ pc = "tryLogin"
        \/ prog = "part_003" /\ pc = "login"
     /\ ~(page.user /\ page.pwd))
        => filled' = {}

\* C19: if the username field or the password field cannot be located on the
\* login page, login resolution fails at once for that page: no field is
\* filled, no submit control is clicked and no Enter key is pressed.
C19_NoInteractionWithoutFields == [][C19_Step]_vars

C27_OrderHashStripped ==
    prog \in {"sync", "scrape"} =>
        \A r \in SentRecords : r.order = <<>> \/ Head(r.order) # "#"

----------------------------------------------------------------------------
(* Properties of the export scripts (part_003, part_004) *)

ExportExited == prog \in {"part_003", "part_004"} /\ pc = "exited"

\* A CSV file is among the files written
CsvSaved ==
    \E f \in files : f \in {"DRS-Daily-2025-01-15.csv", "DRS-Daily-2025-01-16.csv", "orders.csv"}

\* C16: an export script exits with code 2 when DRS_LOGIN_URL, DRS_USERNAME or
\* DRS_PASSWORD is missing, with code 1 when it started up and its main
\* function did not run to its end, and with code 0 only when a CSV file has
\* been saved.
C16_ExitCodes ==
    ExportExited =>
        /\ exitCode \in {0, 1, 2}
        /\ missing \cap {"DRS_LOGIN_URL", "DRS_USERNAME", "DRS_PASSWORD"} # {} => exitCode = 2
        /\ (missing \cap {"DRS_LOGIN_URL", "DRS_USERNAME", "DRS_PASSWORD"} = {}
              /\ browser # "closed") => exitCode = 1
        /\ exitCode = 0 => (CsvSaved /\ browser = "closed")

\* C16 witness: part_003 ended with code 0 after the inline fallback saved the file.
C16_Witness ==
    /\ ExportExited /\ prog = "part_003"
    /\ exitCode = 0 /\ dl = "timeout" /\ CsvSaved

\* C17: when no download event arrives within the wait after the export
\* control was clicked, exactly one fallback attempt to read an inline
\* CSV-like body is made; the run fails (exit 1, no CSV file) only if the
\* fallback yields nothing, and the date's CSV file is written when it
\* yields text.
C17_OneFallback ==
    (ExportExited /\ dl = "timeout") =>
        /\ grabs = 1
        /\ tryGrabCSVFromPage(page) => (exitCode = 0 /\ fileName(start) \in files)
        /\ ~tryGrabCSVFromPage(page) => (exitCode = 1 /\ ~CsvSaved)

----------------------------------------------------------------------------
(* Properties of extractTable *)

Extracted == prog = "extractTable" /\ pc = "done"

\* Table n of the page comes before table m in the selection order: a higher
\* keyword score, or the same score and more body rows, or the same in both
\* and an earlier DOM position
Beats(n, m) ==
    \/ pack(dom[n]).score > pack(dom[m]).score
    \/ /\ pack(dom[n]).score = pack(dom[m]).score
       /\ Len(pack(dom[n]).rows) > Len(pack(dom[m]).rows)
    \/ /\ pack(dom[n]).score = pack(dom[m]).score
       /\ Len(pack(dom[n]).rows) = Len(pack(dom[m]).rows)
       /\ n < m

\* C21: among the tables of the page, extractTable returns the content of the
\* one with the highest keyword score whatever its position, among equal
\* scores the one with more body rows, and among tables equal in both the
\* first in DOM order.
C21_BestTableSelected ==
    (Extracted /\ Len(dom) > 0) =>
        \E n \in 1..Len(dom) :
            /\ \A m \in 1..Len(dom) : m # n => Beats(n, m)
            /\ payload = extractTable(<< dom[n] >>)

\* A page whose second table has the higher score, and is the one returned
C21_Witness ==
    /\ Extracted
    /\ Len(dom) = 2
    /\ pack(dom[2]).score > pack(dom[1]).score
    /\ Len(pack(dom[2]).rows) < Len(pack(dom[1]).rows)
    /\ payload = extractTable(<< dom[2] >>)
    /\ payload # extractTable(<< dom[1] >>)

\* C22: extractTable returns empty headers and empty rows both when the page
\* has no table and when the selected table has no body row.
C22_EmptyHeadersAndRows ==
    (/\ Extracted
     /\ \/ dom = <<>>
        \/ \E n \in 1..Len(dom) :
              /\ \A m \in 1..Len(dom) : m # n => Beats(n, m)
              /\ pack(dom[n]).rows = <<>>)
        => (payload.headers = <<>> /\ payload.rows = <<>>)

\* A table without th cells whose first row holds no keyword
PlainTable(t) ==
    /\ \A n \in 1..Len(t.trs) : t.trs[n].th = <<>>
    /\ Len(t.trs) > 0 => hdrScore(cleanAll(t.trs[1].td)) = 0

\* A tr with a non-empty cell, and its cells under col1..colN by position
HasText(tr) == \E k \in 1..Len(tr.td) : clean(tr.td[k]) # <<>>
ColumnRow(tr) == [k \in 1..Len(tr.td) |-> KV(colName(k), clean(tr.td[k]))]

\* C23: for a table with no header cells and no keyword-bearing first row,
\* the keys of each returned row are exactly col1..colN and colK holds the
\* text of the K-th cell of the row in DOM column order, also when some cells
\* of the row are empty.
C23_ColumnsByPosition ==
    (Extracted /\ Len(dom) = 1 /\ PlainTable(dom[1])) =>
        LET kept == SelectSeq(dom[1].trs, HasText)
        IN  payload.rows = [n \in 1..Len(kept) |-> ColumnRow(kept[n])]

\* C24: every row returned by extractTable has at least one non-empty value:
\* a table row without a non-empty cell is dropped, and no returned row has
\* all of its values empty, whatever the header list (duplicated labels
\* included) and the number of cells.
C24_NoBlankRow ==
    Extracted =>
        /\ \A n \in 1..Len(payload.rows) :
              \E j \in 1..Len(payload.rows[n]) : payload.rows[n][j].v # <<>>
        /\ Len(dom) = 1 => Len(payload.rows) <= Len(SelectSeq(dom[1].trs, HasText))

\* A table without th cells in whose first row fewer than half of the cells
\* hold a keyword
MinorityFirstRow(t) ==
    /\ \A n \in 1..Len(t.trs) : t.trs[n].th = <<>>
    /\ Len(t.trs) > 0
    /\ 2 * hdrScore(cleanAll(t.trs[1].td)) < Len(t.trs[1].td)

\* C25: for a table without header cells the first row is taken as the
\* header row, and left out of the body rows, only when a majority-like
\* fraction of its cells hold a schema keyword: a first row in which a
\* minority of the cells holds a keyword stays in the body, and all rows get
\* col<N> labels.
C25_MinorityFirstRowStays ==
    (Extracted /\ Len(dom) = 1 /\ MinorityFirstRow(dom[1])) =>
        /\ payload.headers = <<>>
        /\ Len(payload.rows) = Len(SelectSeq(dom[1].trs, HasText))
        /\ \A n \in 1..Len(payload.rows) :
              \A j \in 1..Len(payload.rows[n]) : isColKey(payload.rows[n][j].k)

----------------------------------------------------------------------------
(* Properties of the upsert loop (part_002) *)

\* The entries of a store that carry an order number
KeyedEntries(st) == {st[n] : n \in {m \in 1..Len(st) : st[m].order # <<>>}}
KeyedCount(st) == Cardinality({m \in 1..Len(st) : st[m].order # <<>>})

\* The keyed entries one uninterrupted run over the kept records leaves in an
\* empty store: for each order number the last record that carries it
OneRunEntries ==
    {mapped[k] : k \in {m \in 1..Len(mapped) :
        /\ mapped[m].order # <<>>
        /\ \A n \in (m + 1)..Len(mapped) : mapped[n].order # mapped[m].order}}

\* The first run wrote a prefix of its records and aborted; the second run,
\* over the same records for the same date, ran to completion
ResumedRunDone ==
    /\ prog = "sync" /\ run = 2
    /\ pc = "exited" /\ exitCode = 0
    /\ ~prev.done /\ prev.size > 0
    /\ prev.date = start

\* C31: when a run of the upsert loop aborts after writing a prefix of its
\* records and the same record set is then run to completion, the store ends
\* with the same entries for records with an order number as after a single
\* uninterrupted run: the records already written are updated, not created
\* again.
C31_ResumeEqualsOneRun ==
    ResumedRunDone =>
        /\ KeyedEntries(store) = OneRunEntries
        /\ KeyedCount(store) = Cardinality(OneRunEntries)

\* C32: at every point of the upsert loop created + updated equals the number
\* of kept records already processed, the records are processed in input
\* order one at a time, on successful completion created + updated equals
\* kept, and kept never exceeds fetched.
C32_Counters ==
    prog = "sync" =>
        /\ Len(mapped) <= Len(orders)
        /\ i >= 1 => created + updated = i - 1
        /\ i >= 1 => Len(writes) \in {i - 1, i}
        /\ \A k \in 1..Len(writes) : writes[k].rec = k
        /\ created = Cardinality({k \in 1..Min({Len(writes), created + updated}) : writes[k].op = "create"})
        /\ (pc = "summary" \/ (pc = "exited" /\ exitCode = 0)) =>
              created + updated = Len(mapped)

\* A completed run that created one record and updated another
C32_Witness ==
    /\ prog = "sync" /\ pc = "exited" /\ exitCode = 0
    /\ Len(mapped) = 2
    /\ created = 1 /\ updated = 1
    /\ writes[1].op = "create" /\ writes[2].op = "update"

====
